---- MODULE Spec2Model ----
(***************************************************************************)
(* EtherGuard-VPN core dataplane: the peer send engine and endpoint        *)
(* admission (device/peer.go, kept in src/QUICK_REFERENCE.md), the         *)
(* zero-overhead obfuscator (obfuscation/zerooverhead.go, src/unnamed/     *)
(* part_002) and the pseudo-TCP socket and stack (faketcp/socket.go,       *)
(* src/unnamed/part_000, and src/faketcp/stack.go).                        *)
(*                                                                         *)
(* Each subsystem has its own specification over the shared variables:     *)
(*   SpecPeer                  peer send engine, admission, roaming        *)
(*   SpecTry                   endpoint trylist                            *)
(*   SpecObf                   obfuscator Encrypt / Decrypt                *)
(*   SpecHandshake, SpecSock, SpecClose, SpecStop                          *)
(*                             pseudo-TCP socket and stack                 *)
(*   SpecBind                  pseudo-TCP bind                             *)
(***************************************************************************)
EXTENDS Integers, Sequences, FiniteSets, TLC

VARIABLES
    \* ---- peer send engine (device.Peer) ----
    cfg,          \* device and peer configuration, fixed through a behaviour
    devClosed,    \* device.isClosed()
    peerReaders,  \* goroutines holding peer.RLock()
    ep,           \* the six endpoint slots of the peer
    failed,       \* udpFailed / ipv4Failed / ipv6Failed
    activeAF,     \* 0 (unset), 4 or 6
    staticConn,   \* peer.StaticConn
    localIP,      \* device.peers.LocalV4 / LocalV6 have been learnt
    cfgPeer,      \* this peer's entry of EdgeConfig.Peers
    saves,        \* SaveConfig goroutines started and not yet run
    sb,           \* SendBuffer calls, one per sender goroutine
    cu,           \* the SetEndpointFromConnURL call
    rm,           \* the SetEndpointFromPacket call
    \* ---- endpoint trylist (device.endpoint_trylist) ----
    et,           \* the maps, the clock, the lookups and the last call
    \* ---- obfuscator (obfuscation.ZeroOverheadHandler) ----
    obf,
    \* ---- pseudo-TCP (faketcp.Socket, faketcp.Stack) ----
    sk,           \* sockets
    stk,          \* stacks, one per node
    tun,          \* per node: the TUN device
    th,           \* goroutines of the pseudo-TCP model
    rnd,          \* per socket: the value rand.Uint32() returns in newSocket
    bnd,          \* the server's conn.FakeTCPBind
    \* ---- deadlock watchdog (mtypes.CriticalLogger) ----
    cl,           \* the logger, its monitor goroutine and the clock
    \* ---- one stack with several connections ----
    mx,           \* its sockets, its socket table, the bind's table, the callers
    \* ---- lock discipline (endpoint_trylist.RWMutex, Peer.RWMutex) ----
    lk,           \* who holds each lock, and where each goroutine is in its call
    \* ---- address validation (conn.IsPrivateIP, conn.IsPublicIP) ----
    ipc           \* the last call: its argument and its results

peerVars == <<cfg, devClosed, peerReaders, ep, failed, activeAF, staticConn,
              localIP, cfgPeer, saves, sb, cu, rm>>
tryVars == <<et>>
obfVars == <<obf>>
tcpVars == <<sk, stk, tun, th, rnd, bnd>>
wdVars == <<cl>>
muxVars == <<mx>>
lkVars == <<lk>>
ipVars == <<ipc>>
vars == <<peerVars, tryVars, wdVars, ipVars, obfVars, tcpVars, muxVars, lkVars>>

(***************************************************************************)
(* Bounds of the model.                                                    *)
(***************************************************************************)
MaxSaves == 1        \* SaveConfig goroutines that may be pending at once
maxPacketSize == 62  \* the maxPacketSize the obfuscator is built with
MaxLen == 22         \* longest packet handed to the obfuscator
MaxInFlight == 3     \* packets a TUN queue holds before the network drops
MaxInject == 1       \* packets of other origin that arrive at the client
MaxFlood == 515      \* data segments the server sends to a client that does not read
MaxSocks == 3        \* sockets one stack makes
MaxReads == 3        \* packets the stack's reader reads
MaxQueued == 2       \* packets that wait on a socket during its handshake
MaxSends == 2        \* payloads the client's application sends
MaxTime == 8         \* the clock of the watchdog stops here
MaxArrivals == 2     \* data packets that arrive for the client's connection
MaxCalls == 3        \* calls made on the trylist
MaxTicks == 2        \* seconds that pass while the trylist is used

(***************************************************************************)
(* IP addresses.  An IPv4 address is its four octets, an IPv6 address its  *)
(* eight 16-bit groups, a nil net.IP the empty tuple.                      *)
(***************************************************************************)
NilIP == <<>>
NoAddr == <<>>

IsV4(ip) == Len(ip) = 4
IsV6(ip) == Len(ip) = 8

\* net.IP.To4 of an IPv4-mapped IPv6 address ::ffff:a.b.c.d
IsMapped(ip) ==
    /\ IsV6(ip)
    /\ \A i \in 1..5 : ip[i] = 0
    /\ ip[6] = 65535

Unmap(ip) ==
    IF IsMapped(ip)
    THEN <<ip[7] \div 256, ip[7] % 256, ip[8] \div 256, ip[8] % 256>>
    ELSE ip

IsPrivateV4_Through32(a) ==
    \/ a[1] \in {0, 10, 127} \cup (224..255)
    \/ a[1] = 172 /\ a[2] \in 16..32
    \/ a[1] = 192 /\ a[2] = 168
    \/ a[1] = 169 /\ a[2] = 254
    \/ a[1] = 100 /\ a[2] \in 64..127
    \/ a[1] = 192 /\ a[2] = 0 /\ a[3] \in {0, 2}
    \/ a[1] = 198 /\ a[2] = 51 /\ a[3] = 100
    \/ a[1] = 203 /\ a[2] = 0 /\ a[3] = 113
    \/ a[1] = 198 /\ a[2] \in 18..19

IsPrivateV4(a) ==
    \/ a[1] = 10
    \/ a[1] = 172 /\ a[2] \in 16..31
    \/ a[1] = 192 /\ a[2] = 168
    \/ a[1] = 127
    \/ a[1] = 169 /\ a[2] = 254
    \/ a[1] = 100 /\ a[2] \in 64..127
    \/ a[1] \in 224..239
    \/ a[1] \in 240..255
    \/ a[1] = 0
    \/ a[1] = 192 /\ a[2] = 0 /\ a[3] = 0
    \/ a[1] = 192 /\ a[2] = 0 /\ a[3] = 2
    \/ a[1] = 198 /\ a[2] = 51 /\ a[3] = 100
    \/ a[1] = 203 /\ a[2] = 0 /\ a[3] = 113
    \/ a[1] = 198 /\ a[2] \in 18..19
    \/ a = <<255, 255, 255, 255>>

IsPrivateV6(g) ==
    \/ g = <<0, 0, 0, 0, 0, 0, 0, 1>>
    \/ g[1] \in 65152..65215
    \/ g[1] \in 64512..65023
    \/ g[1] \in 65280..65535
    \/ g = <<0, 0, 0, 0, 0, 0, 0, 0>>
    \/ g[1] = 8193 /\ g[2] = 3512

IsPrivateIP(ip) ==
    IF ip = NilIP THEN TRUE
    ELSE IF IsV4(Unmap(ip)) THEN IsPrivateV4(Unmap(ip))
    ELSE IsPrivateV6(ip)

IsPublicIP(ip) == ip # NilIP /\ ~IsPrivateIP(ip)

\* net.ParseIP of a dotted IPv4 address: the 16-byte form ::ffff:a.b.c.d
ParseIP4(a) == <<0, 0, 0, 0, 0, 65535, a[1] * 256 + a[2], a[3] * 256 + a[4]>>

\* the blocked ranges, as the documentation lists them: base address and
\* prefix length
Blocks4 ==
    {[addr |-> <<10, 0, 0, 0>>, len |-> 8], [addr |-> <<172, 16, 0, 0>>, len |-> 12],
     [addr |-> <<192, 168, 0, 0>>, len |-> 16], [addr |-> <<127, 0, 0, 0>>, len |-> 8],
     [addr |-> <<169, 254, 0, 0>>, len |-> 16], [addr |-> <<100, 64, 0, 0>>, len |-> 10],
     [addr |-> <<224, 0, 0, 0>>, len |-> 4], [addr |-> <<240, 0, 0, 0>>, len |-> 4],
     [addr |-> <<0, 0, 0, 0>>, len |-> 8], [addr |-> <<192, 0, 0, 0>>, len |-> 24],
     [addr |-> <<192, 0, 2, 0>>, len |-> 24], [addr |-> <<198, 51, 100, 0>>, len |-> 24],
     [addr |-> <<203, 0, 113, 0>>, len |-> 24], [addr |-> <<198, 18, 0, 0>>, len |-> 15],
     [addr |-> <<255, 255, 255, 255>>, len |-> 32]}
Blocks6 ==
    {[addr |-> <<0, 0, 0, 0, 0, 0, 0, 1>>, len |-> 128],
     [addr |-> <<65152, 0, 0, 0, 0, 0, 0, 0>>, len |-> 10],
     [addr |-> <<64512, 0, 0, 0, 0, 0, 0, 0>>, len |-> 7],
     [addr |-> <<65280, 0, 0, 0, 0, 0, 0, 0>>, len |-> 8],
     [addr |-> <<0, 0, 0, 0, 0, 0, 0, 0>>, len |-> 128],
     [addr |-> <<8193, 3512, 0, 0, 0, 0, 0, 0>>, len |-> 32]}

RECURSIVE Pow2(_)
Pow2(n) == IF n = 0 THEN 1 ELSE 2 * Pow2(n - 1)

\* net.IPNet.Contains: the first len bits of a and of the base agree.  The
\* prefixes of the list are 4..24 or 32 bits for IPv4 and 7..32 or 128
\* bits for IPv6.
Contains4(b, a) ==
    LET Top24(x) == x[1] * 65536 + x[2] * 256 + x[3]
    IN  IF b.len = 32 THEN a = b.addr
        ELSE Top24(a) \div Pow2(24 - b.len) = Top24(b.addr) \div Pow2(24 - b.len)
Contains6(b, g) ==
    IF b.len = 128 THEN g = b.addr
    ELSE IF b.len <= 16 THEN g[1] \div Pow2(16 - b.len) = b.addr[1] \div Pow2(16 - b.len)
    ELSE /\ g[1] = b.addr[1]
         /\ g[2] \div Pow2(32 - b.len) = b.addr[2] \div Pow2(32 - b.len)

\* the table of TestIsPrivateIP and of TestIsPublicIP: each address as
\* net.ParseIP returns it, and the expected result
PrivateTests ==
    {[ip |-> ParseIP4(a), expected |-> TRUE] :
        a \in {<<10, 0, 0, 1>>, <<172, 16, 0, 1>>, <<172, 31, 255, 255>>, <<192, 168, 1, 1>>,
               <<127, 0, 0, 1>>, <<169, 254, 1, 1>>, <<100, 64, 0, 1>>, <<224, 0, 0, 1>>,
               <<240, 0, 0, 1>>, <<255, 255, 255, 255>>, <<0, 0, 0, 0>>, <<192, 0, 2, 1>>,
               <<198, 51, 100, 1>>, <<203, 0, 113, 1>>, <<198, 18, 0, 1>>}}
    \cup {[ip |-> ParseIP4(a), expected |-> FALSE] :
        a \in {<<8, 8, 8, 8>>, <<1, 1, 1, 1>>, <<172, 15, 0, 1>>, <<172, 32, 0, 1>>,
               <<192, 167, 1, 1>>, <<192, 169, 1, 1>>}}
    \cup {[ip |-> g, expected |-> TRUE] :
        g \in {<<0, 0, 0, 0, 0, 0, 0, 1>>, <<65152, 0, 0, 0, 0, 0, 0, 1>>,
               <<64512, 0, 0, 0, 0, 0, 0, 1>>, <<64768, 0, 0, 0, 0, 0, 0, 1>>,
               <<65282, 0, 0, 0, 0, 0, 0, 1>>, <<0, 0, 0, 0, 0, 0, 0, 0>>,
               <<8193, 3512, 0, 0, 0, 0, 0, 1>>}}
    \cup {[ip |-> g, expected |-> FALSE] :
        g \in {<<8193, 18528, 18528, 0, 0, 0, 0, 34952>>,
               <<9734, 18176, 18176, 0, 0, 0, 0, 4369>>}}
    \cup {[ip |-> NilIP, expected |-> TRUE]}
PublicTests ==
    {[ip |-> ParseIP4(<<8, 8, 8, 8>>), expected |-> TRUE],
     [ip |-> ParseIP4(<<10, 0, 0, 1>>), expected |-> FALSE],
     [ip |-> ParseIP4(<<1, 1, 1, 1>>), expected |-> TRUE],
     [ip |-> ParseIP4(<<192, 168, 1, 1>>), expected |-> FALSE],
     [ip |-> <<8193, 18528, 18528, 0, 0, 0, 0, 34952>>, expected |-> TRUE],
     [ip |-> <<65152, 0, 0, 0, 0, 0, 0, 1>>, expected |-> FALSE]}

\* the arguments of the calls: the addresses of the tests, and addresses
\* on both sides of every boundary of the list, in 4-byte form, in
\* IPv4-mapped form and as IPv6 addresses
Octets1 == {0, 1, 9, 10, 11, 99, 100, 101, 126, 127, 128, 168, 169, 170, 171, 172, 173,
            191, 192, 193, 197, 198, 199, 202, 203, 204, 223, 224, 239, 240, 255}
Octets2 == {0, 1, 15, 16, 31, 32, 17, 18, 19, 20, 50, 51, 52, 63, 64, 127, 128,
            167, 168, 169, 253, 254, 255}
Octets3 == {0, 1, 2, 3, 99, 100, 101, 112, 113, 114, 255}
Octets4 == {0, 255}
Groups1 == {0, 1, 8192, 8193, 8194, 64511, 64512, 64768, 65023, 65024, 65151, 65152,
            65215, 65216, 65279, 65280, 65535}
Groups2 == {0, 3511, 3512, 3513}
V4Inputs == {<<a, b, c, d>> : a \in Octets1, b \in Octets2, c \in Octets3, d \in Octets4}
V6Inputs ==
    {<<g1, g2, 0, 0, 0, g6, 0, g8>> : g1 \in Groups1, g2 \in Groups2,
                                     g6 \in {0, 65535}, g8 \in {0, 1, 2}}
MappedInputs == {ParseIP4(<<a, b, 0, 1>>) : a \in Octets1, b \in Octets2}
IPInputs ==
    {NilIP} \cup V4Inputs \cup V6Inputs \cup MappedInputs
        \cup {t.ip : t \in PrivateTests} \cup {t.ip : t \in PublicTests}

NoIPCall == [pc |-> "idle", ip |-> NilIP, private |-> FALSE, public |-> FALSE]

InitIP == ipc = NoIPCall

\* a call of IsPrivateIP and of IsPublicIP on one address
CheckIP ==
    /\ ipc.pc = "idle"
    /\ \E ip \in IPInputs :
         ipc' = [pc |-> "done", ip |-> ip,
                 private |-> IsPrivateIP(ip), public |-> IsPublicIP(ip)]

IPNext ==
    /\ ipc.pc = "done"
    /\ ipc' = NoIPCall

NextIP ==
    \/ CheckIP
    \/ IPNext

\* the addresses a lookup may resolve to, and the sources a packet may carry
Pub4 == <<8, 8, 8, 8>>
Priv4 == <<192, 168, 1, 5>>
Pub6 == <<9734, 18176, 18176, 0, 0, 0, 0, 4369>>
Priv6 == <<65152, 0, 0, 0, 0, 0, 0, 1>>
Roam4 == <<1, 1, 1, 1>>
RoamPriv4 == <<10, 0, 0, 5>>
Addrs4 == {Pub4, Priv4}
Addrs6 == {Pub6, Priv6}
PacketSources == {Roam4, RoamPriv4}

(***************************************************************************)
(* Endpoints: conn.Endpoint values of the UDP bind and of the pseudo-TCP   *)
(* bind; NilEp is the nil interface value.                                 *)
(***************************************************************************)
NilEp == [bind |-> "nil", ip |-> NilIP]
UdpEp(ip) == [bind |-> "udp", ip |-> ip]
TcpEp(ip) == [bind |-> "faketcp", ip |-> ip]

\* the goroutines that call Peer.SendBuffer
Callers == {"s1", "s2"}

Senders == {"s1"}

Transports == {"v6", "v4", "udp", "ftcp"}

\* one device and peer configuration, fixed through a behaviour
Config(allowPrivate, dualStack, hasFakeTCP, disableRoaming) ==
    [ allowPrivate |-> allowPrivate,      \* EdgeConfig.AllowPrivateIP
      dualStack |-> dualStack,            \* EdgeConfig.DualStack.Enabled
      hasFakeTCP |-> hasFakeTCP,          \* device.net.faketcpBind != nil
      disableRoaming |-> disableRoaming,  \* peer.disableRoaming
      isSuperNode |-> FALSE,              \* device.IsSuperNode
      peerIsSuper |-> FALSE,              \* peer.ID == NodeID_SuperNode
      useP2P |-> TRUE ]                   \* EdgeConfig.DynamicRoute.P2P.UseP2P

Configs ==
    { Config(FALSE, TRUE, TRUE, FALSE),
      Config(FALSE, FALSE, TRUE, FALSE),
      Config(TRUE, TRUE, FALSE, TRUE) }

NoPeerEntry == [present |-> FALSE, endpoint |-> NoAddr, static |-> FALSE]

\* `after` is not program state: the calls that were inside SendBuffer when
\* this one was invoked and have not returned since
SbIdle ==
    [pc |-> "idle", plan |-> <<>>, sent |-> FALSE, err |-> FALSE,
     log |-> <<>>, closedEntry |-> FALSE, res |-> "none", after |-> {}]

CuIdle ==
    [pc |-> "idle", v4 |-> NoAddr, v6 |-> NoAddr, primary |-> 0,
     static |-> FALSE, admitted |-> 0, res |-> "none"]

RmIdle == [pc |-> "idle", e |-> NilEp, sawStatic |-> FALSE, res |-> "none"]

InitPeer ==
    /\ cfg \in Configs
    /\ devClosed = FALSE
    /\ peerReaders = {}
    /\ ep = [endpoint |-> NilEp, faketcpEndpoint |-> NilEp,
             endpointIPv4 |-> NilEp, endpointIPv6 |-> NilEp,
             faketcpEndpointIPv4 |-> NilEp, faketcpEndpointIPv6 |-> NilEp]
    /\ failed = [udp |-> FALSE, v4 |-> FALSE, v6 |-> FALSE]
    /\ activeAF = 0
    /\ staticConn = FALSE
    /\ localIP = [v4 |-> FALSE, v6 |-> FALSE]
    /\ cfgPeer = NoPeerEntry
    /\ saves = 0
    /\ sb = [t \in Callers |-> SbIdle]
    /\ cu = CuIdle
    /\ rm = RmIdle

(***************************************************************************)
(* Peer.SendBuffer and its helpers.                                        *)
(*                                                                         *)
(* peer.RLock() is held from SBEnter to SBReturn.  Every peer.Lock()       *)
(* section of the other operations is one step, enabled when no goroutine  *)
(* holds the read lock.  device.net.RLock() never blocks here: BindUpdate, *)
(* its only writer, is outside the source.  The time stamps                *)
(* lastUDPSuccess, lastIPv4Success, lastIPv6Success and                    *)
(* ipv6RecoveryStartTime are written and never read, and are left out.     *)
(* The outcome ok of a bind.Send is the network's choice.                  *)
(***************************************************************************)
SBResult_NoCheck(sent) == "ok"

\* lines 1094-1099: nil when a send succeeded, an error otherwise
SBResult(sent) == IF sent THEN "ok" ELSE "err"

\* lines 1018-1022
DualStackSend ==
    /\ ~cfg.isSuperNode
    /\ ep.endpointIPv4 # NilEp
    /\ ep.endpointIPv6 # NilEp
    /\ cfg.dualStack

\* the order of the attempts, lines 1035-1058 and 1060-1091
SendPlan(dual, af) ==
    IF ~dual THEN <<"udp", "lftcp">>
    ELSE IF af = 6 THEN <<"v6", "v4", "ftcp">>
    ELSE <<"v4", "v6", "ftcp">>

\* one attempt returned (sent, err): `if !sent { sent, err = next(...) }`
Advance(s, sent, err, entry) ==
    LET last == sent \/ Tail(s.plan) = <<>> IN
    [s EXCEPT !.plan = Tail(s.plan),
              !.sent = sent,
              !.err = err,
              !.log = s.log \o entry,
              !.pc = IF last THEN "ret" ELSE "try",
              !.res = IF last THEN SBResult(sent) ELSE "none"]

\* lines 998-1033
SBEnter(t) ==
    /\ sb[t].pc = "idle"
    /\ IF devClosed
       THEN /\ sb' = [sb EXCEPT ![t] = [SbIdle EXCEPT !.pc = "ret", !.closedEntry = TRUE,
                                                       !.res = "ok"]]
            /\ UNCHANGED <<peerReaders, activeAF>>
       ELSE /\ peerReaders' = peerReaders \cup {t}
            /\ IF /\ ep.endpoint = NilEp /\ ep.faketcpEndpoint = NilEp
                  /\ ep.endpointIPv4 = NilEp /\ ep.endpointIPv6 = NilEp
               THEN /\ sb' = [sb EXCEPT ![t] = [SbIdle EXCEPT !.pc = "ret", !.res = "err"]]
                    /\ UNCHANGED activeAF
               ELSE /\ activeAF' = IF DualStackSend /\ activeAF = 0 THEN 6 ELSE activeAF
                    /\ sb' = [sb EXCEPT ![t] =
                                [SbIdle EXCEPT !.pc = "try",
                                               !.plan = SendPlan(DualStackSend, activeAF'),
                                               !.after = peerReaders]]
    /\ UNCHANGED <<cfg, devClosed, ep, failed, staticConn, localIP, cfgPeer, saves, cu, rm>>

\* Peer.tryIPv6Send up to its peer.Lock(), lines 874-907
TryIPv6Send(t, ok) ==
    LET s == sb[t] IN
    IF ep.endpointIPv6 = NilEp \/ failed.v6
    THEN /\ sb' = [sb EXCEPT ![t] = Advance(s, FALSE, FALSE, <<>>)]
         /\ UNCHANGED <<failed, activeAF>>
    ELSE IF ok
    THEN /\ failed' = [failed EXCEPT !.v6 = FALSE]
         /\ sb' = [sb EXCEPT ![t] = Advance(s, TRUE, FALSE, <<<<"v6", TRUE>>>>)]
         /\ UNCHANGED activeAF
    ELSE /\ failed' = [failed EXCEPT !.v6 = TRUE]
         /\ IF ep.endpointIPv4 # NilEp
            THEN /\ activeAF' = 4
                 /\ sb' = [sb EXCEPT ![t] =
                             [s EXCEPT !.pc = "v6lock", !.sent = FALSE, !.err = TRUE,
                                       !.log = s.log \o <<<<"v6", FALSE>>>>]]
            ELSE /\ UNCHANGED activeAF
                 /\ sb' = [sb EXCEPT ![t] = Advance(s, FALSE, TRUE, <<<<"v6", FALSE>>>>)]

\* Peer.tryIPv6Send from its peer.Lock() on, lines 908-915: the caller,
\* SendBuffer, holds peer.RLock(), and Lock waits for every reader to leave
FailoverRepoint(t) ==
    /\ peerReaders = {}
    /\ ep' = [ep EXCEPT !.endpoint = ep.endpointIPv4,
                        !.faketcpEndpoint = ep.faketcpEndpointIPv4]
    /\ sb' = [sb EXCEPT ![t] = Advance([sb[t] EXCEPT !.pc = "try"], FALSE, TRUE, <<>>)]

\* Peer.tryIPv4Send, lines 920-948
TryIPv4Send(t, ok) ==
    LET s == sb[t] IN
    IF ep.endpointIPv4 = NilEp \/ failed.v4
    THEN /\ sb' = [sb EXCEPT ![t] = Advance(s, FALSE, FALSE, <<>>)]
         /\ UNCHANGED failed
    ELSE IF ok
    THEN /\ failed' = [failed EXCEPT !.v4 = FALSE]
         /\ sb' = [sb EXCEPT ![t] = Advance(s, TRUE, FALSE, <<<<"v4", TRUE>>>>)]
    ELSE /\ failed' = [failed EXCEPT !.v4 = TRUE]
         /\ sb' = [sb EXCEPT ![t] = Advance(s, FALSE, TRUE, <<<<"v4", FALSE>>>>)]

\* the endpoint Peer.tryFakeTCPSend picks, lines 963-982
FakeTCPChoice ==
    IF activeAF = 6 /\ ep.faketcpEndpointIPv6 # NilEp THEN ep.faketcpEndpointIPv6
    ELSE IF activeAF = 4 /\ ep.faketcpEndpointIPv4 # NilEp THEN ep.faketcpEndpointIPv4
    ELSE IF ep.faketcpEndpointIPv4 # NilEp THEN ep.faketcpEndpointIPv4
    ELSE ep.faketcpEndpointIPv6

\* Peer.tryFakeTCPSend, lines 952-996
TryFakeTCPSend(t, ok) ==
    LET s == sb[t] IN
    IF ~cfg.hasFakeTCP \/ activeAF = 0 \/ FakeTCPChoice = NilEp
    THEN sb' = [sb EXCEPT ![t] = Advance(s, FALSE, FALSE, <<>>)]
    ELSE sb' = [sb EXCEPT ![t] = Advance(s, ok, ~ok, <<<<"ftcp", ok>>>>)]

\* the UDP leg of the single-endpoint path, lines 1062-1080
LegacyUDPSend(t, ok) ==
    LET s == sb[t] IN
    IF ep.endpoint = NilEp \/ failed.udp
    THEN /\ sb' = [sb EXCEPT ![t] = Advance(s, FALSE, FALSE, <<>>)]
         /\ UNCHANGED failed
    ELSE IF ok
    THEN /\ sb' = [sb EXCEPT ![t] = Advance(s, TRUE, FALSE, <<<<"udp", TRUE>>>>)]
         /\ UNCHANGED failed
    ELSE /\ failed' = [failed EXCEPT !.udp = TRUE]
         /\ sb' = [sb EXCEPT ![t] = Advance(s, FALSE, TRUE, <<<<"udp", FALSE>>>>)]

\* the pseudo-TCP leg of the single-endpoint path, lines 1083-1091
LegacyFakeTCPSend(t, ok) ==
    LET s == sb[t] IN
    IF ep.faketcpEndpoint = NilEp \/ ~cfg.hasFakeTCP
    THEN sb' = [sb EXCEPT ![t] = Advance(s, s.sent, s.err, <<>>)]
    ELSE sb' = [sb EXCEPT ![t] = Advance(s, ok, ~ok, <<<<"ftcp", ok>>>>)]

\* one attempt of the call, or the failover's relocking
SBTry(t) ==
    /\ sb[t].pc \in {"try", "v6lock"}
    /\ \E ok \in BOOLEAN :
         CASE sb[t].pc = "v6lock" ->
                /\ FailoverRepoint(t)
                /\ UNCHANGED <<failed, activeAF>>
           [] sb[t].pc = "try" /\ Head(sb[t].plan) = "v6" ->
                /\ TryIPv6Send(t, ok)
                /\ UNCHANGED ep
           [] sb[t].pc = "try" /\ Head(sb[t].plan) = "v4" ->
                /\ TryIPv4Send(t, ok)
                /\ UNCHANGED <<ep, activeAF>>
           [] sb[t].pc = "try" /\ Head(sb[t].plan) = "ftcp" ->
                /\ TryFakeTCPSend(t, ok)
                /\ UNCHANGED <<ep, failed, activeAF>>
           [] sb[t].pc = "try" /\ Head(sb[t].plan) = "udp" ->
                /\ LegacyUDPSend(t, ok)
                /\ UNCHANGED <<ep, activeAF>>
           [] sb[t].pc = "try" /\ Head(sb[t].plan) = "lftcp" ->
                /\ LegacyFakeTCPSend(t, ok)
                /\ UNCHANGED <<ep, failed, activeAF>>
    /\ UNCHANGED <<cfg, devClosed, peerReaders, staticConn, localIP, cfgPeer, saves, cu, rm>>

\* the return of the call, lines 1094-1100, and the deferred RUnlocks
SBReturn(t) ==
    /\ sb[t].pc = "ret"
    /\ peerReaders' = peerReaders \ {t}
    /\ sb' = [u \in Callers |-> IF u = t THEN SbIdle
                                ELSE [sb[u] EXCEPT !.after = @ \ {t}]]
    /\ UNCHANGED <<cfg, devClosed, ep, failed, activeAF, staticConn, localIP, cfgPeer,
                   saves, cu, rm>>

\* Device.Close as SendBuffer sees it: isClosed() turns true
DeviceClose ==
    /\ ~devClosed
    /\ devClosed' = TRUE
    /\ UNCHANGED <<cfg, peerReaders, ep, failed, activeAF, staticConn, localIP, cfgPeer,
                   saves, sb, cu, rm>>

(***************************************************************************)
(* Peer.SetEndpointFromConnURL.                                            *)
(*                                                                         *)
(* conn.LookupIPDualStack and conn.LookupIP are outside the source: a      *)
(* lookup fails or yields any address of a family it was asked for, and    *)
(* the primary family of a dual-stack lookup is one that resolved.         *)
(* Endpoint updates are issued one at a time: a call from a URL and a call *)
(* from a packet do not overlap each other, and both overlap SendBuffer.   *)
(***************************************************************************)
AfChoices == {[v4 |-> TRUE, v6 |-> TRUE], [v4 |-> TRUE, v6 |-> FALSE],
              [v4 |-> FALSE, v6 |-> TRUE]}

LookupError == [err |-> TRUE, v4 |-> NoAddr, v6 |-> NoAddr, primary |-> 0]

\* lines 1264-1287: what v4Addr, v6Addr and primaryAF hold after the lookups
LookupOutcomes(dual, af) ==
    LET single == (IF af.v4 THEN Addrs4 ELSE {}) \cup (IF af.v6 THEN Addrs6 ELSE {})
        asV4 == {[err |-> FALSE, v4 |-> a, v6 |-> NoAddr, primary |-> 4] : a \in single}
        asV6 == {[err |-> FALSE, v4 |-> NoAddr, v6 |-> a, primary |-> 6] : a \in single}
        both == {[err |-> FALSE, v4 |-> a, v6 |-> b, primary |-> p] :
                    a \in Addrs4 \cup {NoAddr}, b \in Addrs6 \cup {NoAddr}, p \in {4, 6}}
        sane == {r \in both : /\ r.v4 # NoAddr \/ r.v6 # NoAddr
                              /\ r.primary = 4 => r.v4 # NoAddr
                              /\ r.primary = 6 => r.v6 # NoAddr}
    IN  {LookupError} \cup
        (IF dual THEN sane \cup asV4
         ELSE IF af.v6 /\ ~af.v4 THEN asV6
         ELSE asV4)

Admitted_All(ip) == TRUE

\* lines 1296 and 1332: `allowPrivate || !conn.IsPrivateIP(ip)`
Admitted(ip) == cfg.allowPrivate \/ ~IsPrivateIP(ip)

CuOrder == <<"v4udp", "v4tcp", "v6udp", "v6tcp", "check">>

\* whether the call executes the locked section named p
CuApplies(c, p) ==
    CASE p = "v4udp" -> c.v4 # NoAddr /\ Admitted(c.v4)
      [] p = "v4tcp" -> c.v4 # NoAddr /\ Admitted(c.v4) /\ cfg.hasFakeTCP
      [] p = "v6udp" -> c.v6 # NoAddr /\ Admitted(c.v6)
      [] p = "v6tcp" -> c.v6 # NoAddr /\ Admitted(c.v6) /\ cfg.hasFakeTCP
      [] OTHER -> TRUE

RECURSIVE CuFrom(_, _)
CuFrom(c, i) == IF CuApplies(c, CuOrder[i]) THEN CuOrder[i] ELSE CuFrom(c, i + 1)

CuIndex(p) == CHOOSE i \in 1..Len(CuOrder) : CuOrder[i] = p

\* lines 1241-1287
CUStart ==
    /\ cu.pc = "idle"
    /\ rm.pc = "idle"
    /\ \E af \in AfChoices, static \in BOOLEAN :
         \E r \in LookupOutcomes((cfg.isSuperNode \/ cfg.dualStack) /\ af.v4 /\ af.v6, af) :
            LET c == [CuIdle EXCEPT !.v4 = r.v4, !.v6 = r.v6, !.primary = r.primary,
                                    !.static = static]
            IN  cu' = IF r.err THEN [CuIdle EXCEPT !.pc = "ret", !.res = "lookup_err"]
                      ELSE [c EXCEPT !.pc = CuFrom(c, 1)]
    /\ UNCHANGED <<cfg, devClosed, peerReaders, ep, failed, activeAF,
                   staticConn, localIP, cfgPeer, saves, sb, rm>>

\* lines 1289-1359: the four peer.Lock() sections that install an admitted address
CUInstall ==
    /\ cu.pc \in {"v4udp", "v4tcp", "v6udp", "v6tcp"}
    /\ peerReaders = {}
    /\ ep' = CASE cu.pc = "v4udp" -> [ep EXCEPT !.endpointIPv4 = UdpEp(cu.v4)]
               [] cu.pc = "v4tcp" -> [ep EXCEPT !.faketcpEndpointIPv4 = TcpEp(cu.v4)]
               [] cu.pc = "v6udp" -> [ep EXCEPT !.endpointIPv6 = UdpEp(cu.v6)]
               [] cu.pc = "v6tcp" -> [ep EXCEPT !.faketcpEndpointIPv6 = TcpEp(cu.v6)]
    /\ failed' = CASE cu.pc = "v4udp" -> [failed EXCEPT !.v4 = FALSE]
                   [] cu.pc = "v6udp" -> [failed EXCEPT !.v6 = FALSE]
                   [] OTHER -> failed
    /\ cu' = [cu EXCEPT !.pc = CuFrom(cu, CuIndex(cu.pc) + 1),
                        !.admitted = IF cu.pc \in {"v4udp", "v6udp"} THEN @ + 1 ELSE @]
    /\ UNCHANGED <<cfg, devClosed, peerReaders, activeAF,
                   staticConn, localIP, cfgPeer, saves, sb, rm>>

StoreActiveAF_Skipped(primaryAF) == activeAF

\* line 1367: the value of activeAF after `peer.activeAF.Store(&primaryAF)`
StoreActiveAF(primaryAF) == primaryAF

\* lines 1361-1370
CUCheck ==
    /\ cu.pc = "check"
    /\ IF ep.endpointIPv4 = NilEp /\ ep.endpointIPv6 = NilEp
       THEN /\ cu' = [cu EXCEPT !.pc = "ret", !.res = "novalid"]
            /\ UNCHANGED <<activeAF, staticConn>>
       ELSE /\ activeAF' = StoreActiveAF(cu.primary)
            /\ staticConn' = cu.static
            /\ cu' = [cu EXCEPT !.pc = "alias"]
    /\ UNCHANGED <<cfg, devClosed, peerReaders, ep, failed,
                   localIP, cfgPeer, saves, sb, rm>>

\* lines 1372-1396
CUAlias ==
    /\ cu.pc = "alias"
    /\ peerReaders = {}
    /\ IF cu.primary = 6 /\ ep.endpointIPv6 # NilEp
       THEN /\ ep' = [ep EXCEPT !.endpoint = ep.endpointIPv6,
                               !.faketcpEndpoint = ep.faketcpEndpointIPv6]
            /\ UNCHANGED activeAF
       ELSE IF ep.endpointIPv4 # NilEp
       THEN /\ ep' = [ep EXCEPT !.endpoint = ep.endpointIPv4,
                               !.faketcpEndpoint = ep.faketcpEndpointIPv4]
            /\ UNCHANGED activeAF
       ELSE IF ep.endpointIPv6 # NilEp
       THEN /\ ep' = [ep EXCEPT !.endpoint = ep.endpointIPv6,
                               !.faketcpEndpoint = ep.faketcpEndpointIPv6]
            /\ activeAF' = 6
       ELSE UNCHANGED <<ep, activeAF>>
    /\ cu' = [cu EXCEPT !.pc = "ret", !.res = "ok"]
    /\ UNCHANGED <<cfg, devClosed, peerReaders, failed,
                   staticConn, localIP, cfgPeer, saves, sb, rm>>

\* the return of the call
CUReturn ==
    /\ cu.pc = "ret"
    /\ cu' = CuIdle
    /\ UNCHANGED <<cfg, devClosed, peerReaders, ep, failed, activeAF, staticConn, localIP,
                   cfgPeer, saves, sb, rm>>

(***************************************************************************)
(* Peer.SetEndpointFromPacket and Device.SaveToConfig.                     *)
(***************************************************************************)
SaveApplies_NoStatic(e) ==
    /\ ~cfg.isSuperNode
    /\ cfg.useP2P
    /\ ~(ep.endpoint # NilEp /\ Unmap(ep.endpoint.ip) = Unmap(e.ip))

\* lines 1467-1478: the early returns of Device.SaveToConfig
SaveApplies(e) ==
    /\ ~cfg.isSuperNode
    /\ ~staticConn
    /\ cfg.useP2P
    /\ ~(ep.endpoint # NilEp /\ Unmap(ep.endpoint.ip) = Unmap(e.ip))

\* lines 1487-1505: the peer's entry of EdgeConfig.Peers after SaveToConfig;
\* the loop assigns to its copy of a found entry, so a found entry stays
SavedEntry(e) ==
    IF cfgPeer.present THEN cfgPeer
    ELSE [present |-> TRUE, endpoint |-> e.ip, static |-> FALSE]

\* lines 1398-1421: the roaming switch and the source-IP validation, for
\* a packet whose source is one of sources
RoamCheckFrom(sources) ==
    /\ rm.pc = "idle"
    /\ cu.pc = "idle"
    /\ \E src \in sources :
         rm' = IF cfg.disableRoaming
               THEN [RmIdle EXCEPT !.pc = "ret", !.e = UdpEp(src), !.res = "disabled"]
               ELSE IF src # NilIP /\ ~cfg.allowPrivate /\ IsPrivateIP(src)
               THEN [RmIdle EXCEPT !.pc = "ret", !.e = UdpEp(src), !.res = "rejected"]
               ELSE [RmIdle EXCEPT !.pc = "lock", !.e = UdpEp(src)]
    /\ UNCHANGED <<cfg, devClosed, peerReaders, ep, failed, activeAF,
                   staticConn, localIP, cfgPeer, saves, sb, cu>>

\* SetEndpointFromPacket with an endpoint of a bind
RoamCheck == RoamCheckFrom(PacketSources)

\* SetEndpointFromPacket with an endpoint whose DstIP() is nil, line 1405
RoamCheckNil == RoamCheckFrom({NilIP})

\* lines 1423-1445 under peer.Lock(), with net.Dial failing or succeeding
RoamApply ==
    /\ rm.pc = "lock"
    /\ peerReaders = {}
    /\ \E dialOk \in IF cfg.peerIsSuper
                     THEN (IF rm.e.ip = NilIP THEN {FALSE} ELSE BOOLEAN)
                     ELSE {TRUE} :
         IF ~dialOk
         THEN /\ rm' = [rm EXCEPT !.pc = "ret", !.res = "dialfail"]
              /\ UNCHANGED <<ep, localIP, cfgPeer, saves>>
         ELSE /\ localIP' = IF ~cfg.peerIsSuper THEN localIP
                            ELSE IF IsV4(Unmap(rm.e.ip)) THEN [localIP EXCEPT !.v4 = TRUE]
                            ELSE [localIP EXCEPT !.v6 = TRUE]
              /\ IF SaveApplies(rm.e)
                 THEN /\ saves < MaxSaves
                      /\ cfgPeer' = SavedEntry(rm.e)
                      /\ saves' = saves + 1
                 ELSE UNCHANGED <<cfgPeer, saves>>
              /\ ep' = [ep EXCEPT !.endpoint = rm.e]
              /\ rm' = [rm EXCEPT !.pc = "ret", !.res = "adopted",
                                  !.sawStatic = staticConn]
    /\ UNCHANGED <<cfg, devClosed, peerReaders, failed, activeAF,
                   staticConn, sb, cu>>

\* the return of the call
RoamReturn ==
    /\ rm.pc = "ret"
    /\ rm' = RmIdle
    /\ UNCHANGED <<cfg, devClosed, peerReaders, ep, failed, activeAF, staticConn, localIP,
                   cfgPeer, saves, sb, cu>>

\* Device.SaveConfig, lines 1509-1514, run by the goroutine SaveToConfig
\* starts: it marshals EdgeConfig to the file and changes no program state
SaveConfig ==
    /\ saves > 0
    /\ saves' = saves - 1
    /\ UNCHANGED <<cfg, devClosed, peerReaders, ep, failed, activeAF, staticConn, localIP,
                   cfgPeer, sb, cu, rm>>

NextPeer ==
    \/ \E t \in Senders : SBEnter(t)
    \/ \E t \in Senders : SBTry(t)
    \/ \E t \in Senders : SBReturn(t)
    \/ DeviceClose
    \/ CUStart
    \/ CUInstall
    \/ CUCheck
    \/ CUAlias
    \/ CUReturn
    \/ RoamCheck
    \/ RoamApply
    \/ RoamReturn
    \/ SaveConfig

\* the two ways an endpoint is set, a nil packet source included
NextRoam ==
    \/ CUStart
    \/ CUInstall
    \/ CUCheck
    \/ CUAlias
    \/ CUReturn
    \/ RoamCheck
    \/ RoamCheckNil
    \/ RoamApply
    \/ RoamReturn
    \/ SaveConfig

\* SendBuffer called from two goroutines while endpoints are installed
NextSend ==
    \/ \E t \in Callers : SBEnter(t)
    \/ \E t \in Callers : SBTry(t)
    \/ \E t \in Callers : SBReturn(t)
    \/ CUStart
    \/ CUInstall
    \/ CUCheck
    \/ CUAlias
    \/ CUReturn

(***************************************************************************)
(* The endpoint trylist, src/QUICK_REFERENCE.md 347-581.  Times are whole  *)
(* seconds since the zero time.Time; a map is a function on its keys.  The *)
(* calls are made one at a time.                                           *)
(***************************************************************************)
AfPerferVal == 10000
ZeroTime == 0
StartTime == 30000     \* time.Now() when the trylist is made
PeerAliveTimeout == 1  \* et.timeout, in seconds

Urls == {"h1", "h2"}
\* the priority urls.GetList gives each URL
ItOf(url) == IF url = "h1" THEN 0 ELSE 1
\* the addresses a URL can resolve to
V4Of(url) == IF url = "h1" THEN "h1v4" ELSE "h2v4"
V6Of(url) == IF url = "h1" THEN "h1v6" ELSE "h2v6"
Resolutions == {"both", "only4", "only6", "fail"}

\* conn.LookupIPDualStack(url, enabledAf, AfPerfer): v4Addr, v6Addr, err
LookupIPDualStack(url) ==
    [v4Addr |-> IF et.dns[url] \in {"both", "only4"} THEN V4Of(url) ELSE "",
     v6Addr |-> IF et.dns[url] \in {"both", "only6"} THEN V6Of(url) ELSE "",
     err |-> et.dns[url] = "fail"]

\* conn.LookupIP(url, enabledAf, AfPerfer): the network, the address, err;
\* of two families the preferred one is returned
LookupIP(url, AfPerfer) ==
    LET six == et.dns[url] = "only6" \/ (et.dns[url] = "both" /\ AfPerfer = 6)
    IN  [addr |-> IF six THEN "udp6" ELSE "udp4",
         connIP |-> IF six THEN V6Of(url) ELSE V4Of(url),
         err |-> et.dns[url] = "fail"]

EmptyMap == [k \in {} |-> 0]
Item(url, lastTry, firstTry) == [URL |-> url, lastTry |-> lastTry, firstTry |-> firstTry]

\* lines 408-416: an item of the old map is carried forward
Carry_Fresh(old, key, fresh) == fresh
Carry(old, key, fresh) == IF key \in DOMAIN old THEN old[key] ELSE fresh

\* lines 411-414: the lastTry of a new item, time.Time{} + AfPerferVal + it
FreshTry(it, preferred) ==
    ZeroTime + AfPerferVal + (IF preferred THEN it - AfPerferVal ELSE it)

NoCall == [op |-> "none", urls |-> {}, af |-> 0, fast |-> FALSE, url |-> ""]

InitTry ==
    \E dns \in [Urls -> Resolutions], dual \in BOOLEAN :
        et = [trymap_super |-> EmptyMap, trymap_p2p |-> EmptyMap,
              trymap_super_v4 |-> EmptyMap, trymap_super_v6 |-> EmptyMap,
              now |-> StartTime, calls |-> 0,
              dns |-> dns,         \* what each URL resolves to
              dualStack |-> dual,  \* EdgeConfig.DualStack.Enabled, both families enabled
              last |-> NoCall,     \* the last call, its arguments and its result
              super |-> NoCall,    \* the last UpdateSuper
              onlyTries |-> FALSE, \* only GetNextTry was called since the last UpdateSuper
              repeat |-> FALSE]    \* the last UpdateSuper repeated the one before it

\* lines 383-521
UpdateSuper(urls, AfPerfer) ==
    LET dualPath(u) == et.dualStack /\ ~LookupIPDualStack(u).err
        legacy(u) == ~dualPath(u) /\ ~LookupIP(u, AfPerfer).err
        src == {u \in urls : legacy(u)}
        src4 == {u \in urls : \/ dualPath(u) /\ LookupIPDualStack(u).v4Addr # ""
                              \/ legacy(u) /\ LookupIP(u, AfPerfer).addr \in {"udp4", "udp"}}
        src6 == {u \in urls : \/ dualPath(u) /\ LookupIPDualStack(u).v6Addr # ""
                              \/ legacy(u) /\ LookupIP(u, AfPerfer).addr = "udp6"}
        adjusted(u) == \/ AfPerfer = 4 /\ LookupIP(u, AfPerfer).addr = "udp4"
                       \/ AfPerfer = 6 /\ LookupIP(u, AfPerfer).addr = "udp6"
        newmap_super ==
            [u \in src |-> Carry(et.trymap_super, u,
                                 Item(u, FreshTry(ItOf(u), adjusted(u)), ZeroTime))]
        newmap_super_v4 ==
            [k \in {V4Of(u) : u \in src4} |->
                LET u == CHOOSE u \in src4 : V4Of(u) = k
                IN  Carry(et.trymap_super_v4, k,
                          Item(k, FreshTry(ItOf(u), AfPerfer = 4), ZeroTime))]
        newmap_super_v6 ==
            [k \in {V6Of(u) : u \in src6} |->
                LET u == CHOOSE u \in src6 : V6Of(u) = k
                IN  Carry(et.trymap_super_v6, k,
                          Item(k, FreshTry(ItOf(u), AfPerfer = 6), ZeroTime))]
        call == [op |-> "UpdateSuper", urls |-> urls, af |-> AfPerfer,
                 fast |-> FALSE, url |-> ""]
    IN  /\ et.calls < MaxCalls
        /\ et' = [et EXCEPT !.trymap_super = newmap_super,
                            !.trymap_super_v4 = newmap_super_v4,
                            !.trymap_super_v6 = newmap_super_v6,
                            !.calls = @ + 1, !.last = call, !.super = call,
                            !.onlyTries = TRUE,
                            !.repeat = et.onlyTries /\ et.super = call]

\* lines 523-540
UpdateP2P(url) ==
    /\ et.calls < MaxCalls
    /\ et' = [et EXCEPT
                !.trymap_p2p =
                    IF LookupIP(url, 0).err \/ url \in DOMAIN @ THEN @
                    ELSE [k \in DOMAIN @ \cup {url} |->
                             IF k = url THEN Item(url, et.now, ZeroTime) ELSE @[k]],
                !.calls = @ + 1, !.onlyTries = FALSE,
                !.last = [op |-> "UpdateP2P", urls |-> {url}, af |-> 0,
                          fast |-> FALSE, url |-> ""]]

\* lines 542-547
Delete(url) ==
    /\ et.calls < MaxCalls
    /\ et' = [et EXCEPT
                !.trymap_super = [k \in DOMAIN @ \ {url} |-> @[k]],
                !.trymap_p2p = [k \in DOMAIN @ \ {url} |-> @[k]],
                !.calls = @ + 1, !.onlyTries = FALSE,
                !.last = [op |-> "Delete", urls |-> {url}, af |-> 0,
                          fast |-> FALSE, url |-> ""]]

\* lines 563-564: the item was tried and its firstTry is older than et.timeout
AgedOut(v) == v.firstTry > ZeroTime /\ v.firstTry + PeerAliveTimeout < et.now

MinTry(map) == CHOOSE m \in {map[k].lastTry : k \in DOMAIN map} :
                  \A k \in DOMAIN map : m <= map[k].lastTry

\* lines 554-574: the items the two range loops can leave in `smallest`; the
\* order of a range over a map is not fixed, so of several items with the
\* smallest lastTry any may be left, and an item of trymap_p2p replaces one of
\* trymap_super only when its lastTry is earlier.  Each is given with the map
\* it was taken from.
Smallest ==
    LET S == et.trymap_super
        P == et.trymap_p2p
        fromS == {<<"super", k>> : k \in {k \in DOMAIN S : S[k].lastTry = MinTry(S)}}
        fromP == {<<"p2p", k>> : k \in {k \in DOMAIN P : P[k].lastTry = MinTry(P)}}
    IN  IF DOMAIN S = {} THEN fromP
        ELSE IF DOMAIN P = {} THEN fromS
        ELSE IF MinTry(P) < MinTry(S) THEN fromP
        ELSE fromS

\* lines 575-580: the chosen item after the call
Tried(v) == [v EXCEPT !.lastTry = et.now,
                      !.firstTry = IF v.firstTry > ZeroTime THEN @ ELSE et.now]

\* lines 549-581; an aged item of trymap_p2p is deleted and stays a candidate
GetNextTry ==
    /\ et.calls < MaxCalls
    /\ LET kept == {k \in DOMAIN et.trymap_p2p : ~AgedOut(et.trymap_p2p[k])}
       IN  IF Smallest = {}
           THEN et' = [et EXCEPT !.calls = @ + 1,
                                 !.last = [op |-> "GetNextTry", urls |-> {}, af |-> 0,
                                           fast |-> FALSE, url |-> ""]]
           ELSE \E c \in Smallest :
                  LET v == IF c[1] = "super" THEN et.trymap_super[c[2]]
                           ELSE et.trymap_p2p[c[2]]
                      w == Tried(v)
                  IN  et' = [et EXCEPT
                               !.trymap_super = IF c[1] = "super"
                                                THEN [@ EXCEPT ![c[2]] = w] ELSE @,
                               !.trymap_p2p = [k \in kept |->
                                                 IF c[1] = "p2p" /\ k = c[2] THEN w ELSE @[k]],
                               !.calls = @ + 1,
                               !.last = [op |-> "GetNextTry", urls |-> {}, af |-> 0,
                                         fast |-> ~(w.firstTry + PeerAliveTimeout < et.now),
                                         url |-> w.URL]]

\* a second passes
Tick ==
    /\ et.now < StartTime + MaxTicks
    /\ et' = [et EXCEPT !.now = @ + 1]

NextTry ==
    \/ \E urls \in SUBSET Urls, AfPerfer \in {4, 6} : UpdateSuper(urls, AfPerfer)
    \/ \E url \in Urls : UpdateP2P(url)
    \/ \E url \in Urls : Delete(url)
    \/ GetNextTry
    \/ Tick

\* the trylist is not used
TryIdle == et = [trymap_super |-> EmptyMap, trymap_p2p |-> EmptyMap,
                 trymap_super_v4 |-> EmptyMap, trymap_super_v6 |-> EmptyMap,
                 now |-> StartTime, calls |-> 0,
                 dns |-> [u \in Urls |-> "both"], dualStack |-> TRUE,
                 last |-> NoCall, super |-> NoCall, onlyTries |-> FALSE,
                 repeat |-> FALSE]

(***************************************************************************)
(* obfuscation.ZeroOverheadHandler.                                        *)
(*                                                                         *)
(* A packet is a sequence of bytes.  The AES block cipher is a keyed       *)
(* bijection on 16-byte blocks with its inverse written out separately;    *)
(* XChaCha20-Poly1305 adds a keystream that depends on key and nonce and   *)
(* appends a 16-byte tag over key, nonce and ciphertext, which Open        *)
(* recomputes.  Random padding and nonce bytes are inputs of Encrypt.      *)
(***************************************************************************)
AesBlockSize == 16
Overhead == 16
NonceSizeX == 24
MessageTypeRegister == 1
MessageTypeBroadcastPeer == 6

\* the 32-byte PSK, reduced to the one number the ciphers below mix in
Psk == 91

Ok(bytes) == [err |-> FALSE, out |-> bytes]
Err == [err |-> TRUE, out |-> <<>>]

Fill(n, b) == [i \in 1..n |-> b]

RECURSIVE SumSeq(_)
SumSeq(q) == IF q = <<>> THEN 0 ELSE Head(q) + SumSeq(Tail(q))

\* cipher.Block.Encrypt and Decrypt of one block
AESRot(i) == (i % AesBlockSize) + 1
AESRotInv(j) == ((j + AesBlockSize - 2) % AesBlockSize) + 1
AESEncrypt(b) == [i \in 1..AesBlockSize |-> (b[AESRot(i)] + Psk + i) % 256]
AESDecrypt(b) ==
    [j \in 1..AesBlockSize |-> (b[AESRotInv(j)] + 512 - Psk - AESRotInv(j)) % 256]

\* cipher.AEAD.Seal and Open
KeyStream(nonce, i) == (3 * nonce[((i - 1) % NonceSizeX) + 1] + Psk + 7 * i) % 256
Tag(nonce, ct) ==
    [j \in 1..Overhead |-> (SumSeq(ct) * j + nonce[j] + SumSeq(nonce) + Psk) % 256]
Seal(nonce, pt) ==
    LET ct == [i \in 1..Len(pt) |-> (pt[i] + KeyStream(nonce, i)) % 256]
    IN  ct \o Tag(nonce, ct)
Open(nonce, sealed) ==
    IF Len(sealed) < Overhead THEN Err
    ELSE LET n == Len(sealed) - Overhead
             ct == SubSeq(sealed, 1, n)
         IN  IF SubSeq(sealed, n + 1, Len(sealed)) # Tag(nonce, ct) THEN Err
             ELSE Ok([i \in 1..n |-> (ct[i] + 256 - KeyStream(nonce, i)) % 256])

\* binary.BigEndian.AppendUint16 of uint16(n), and binary.BigEndian.Uint16
AppendUint16(n) == <<(n % 65536) \div 256, n % 256>>
Uint16_LittleEndian(b) == b[2] * 256 + b[1]
Uint16(b) == b[1] * 256 + b[2]

\* lines 105-110 and 172-177
IsControlPacket(messageType) ==
    messageType \in MessageTypeRegister..MessageTypeBroadcastPeer

\* line 57 without the two bytes of the length field
MaxControl_NoLenField(size) == size - Overhead - NonceSizeX

\* line 57: maxControlPacketSize
MaxControl(size) == size - 2 - Overhead - NonceSizeX

\* NewZeroOverheadHandler, lines 38-66
NoHandler == [enabled |-> FALSE, maxPacketSize |-> 0, maxControlPacketSize |-> 0]
NewZeroOverheadHandler(size, enabled) ==
    IF ~enabled THEN NoHandler
    ELSE [enabled |-> TRUE, maxPacketSize |-> size,
          maxControlPacketSize |-> MaxControl(size)]

PassThrough_WhenShort(h, packet) == Len(packet) < AesBlockSize

\* lines 80-87 and 154-161: the handler is disabled or the packet is
\* shorter than one block
PassThrough(h, packet) == ~h.enabled \/ Len(packet) < AesBlockSize

TooLarge_AtLimit(h, packet) ==
    \/ h.maxControlPacketSize - Len(packet) <= 0
    \/ Len(packet) - AesBlockSize > 65535

\* lines 118-119: `paddingHeadroom < 0 || len(remainingPayload) > 65535`
TooLarge(h, packet) ==
    \/ h.maxControlPacketSize - Len(packet) < 0
    \/ Len(packet) - AesBlockSize > 65535

PaddingLens_FromZero(h, packet) ==
    LET paddingHeadroom == h.maxControlPacketSize - Len(packet)
    IN  IF paddingHeadroom > 0 THEN 0..(paddingHeadroom - 1) ELSE {0}

\* lines 123-126: the values `1 + rand.Intn(paddingHeadroom)` may take
PaddingLens(h, packet) ==
    LET paddingHeadroom == h.maxControlPacketSize - Len(packet)
    IN  IF paddingHeadroom > 0 THEN 1..paddingHeadroom ELSE {0}

\* ZeroOverheadHandler.Encrypt, lines 79-150
Encrypt(h, packet, paddingLen, padding, nonce) ==
    IF PassThrough(h, packet) THEN Ok(packet)
    ELSE LET first == AESEncrypt(SubSeq(packet, 1, AesBlockSize))
             remainingPayload == SubSeq(packet, AesBlockSize + 1, Len(packet))
             plaintext == remainingPayload \o SubSeq(padding, 1, paddingLen)
                              \o AppendUint16(Len(remainingPayload))
         IN  IF ~IsControlPacket(packet[1]) THEN Ok(first \o remainingPayload)
             ELSE IF TooLarge(h, packet) THEN Err
             ELSE Ok(first \o Seal(nonce, plaintext) \o nonce)

MinControlPacketLen_NoNonce == AesBlockSize + 2 + Overhead

\* line 185
MinControlPacketLen == AesBlockSize + 2 + Overhead + NonceSizeX

\* whether a slice expression s[lo:hi] of a slice of length n panics
OutOfRange(n, lo, hi) == ~(0 <= lo /\ lo <= hi /\ hi <= n)

\* whether ZeroOverheadHandler.Decrypt, lines 153-217, panics: one of the
\* slice expressions it executes is out of range, or the nonce handed to
\* Open is not NonceSizeX long
DecryptPanics(h, packet) ==
    IF PassThrough(h, packet) THEN FALSE
    ELSE LET dst == AESDecrypt(SubSeq(packet, 1, AesBlockSize))
             nonceStart == Len(packet) - NonceSizeX
             sealedLen == nonceStart - AesBlockSize
             plainLen == AesBlockSize + sealedLen - Overhead
             paddingEnd == plainLen - 2
         IN  IF ~IsControlPacket(dst[1]) THEN FALSE
             ELSE IF Len(packet) < MinControlPacketLen THEN FALSE
             ELSE \/ OutOfRange(Len(packet), nonceStart, Len(packet))
                  \/ OutOfRange(Len(packet), AesBlockSize, nonceStart)
                  \/ /\ sealedLen >= Overhead
                     /\ plainLen >= 2
                     /\ OutOfRange(plainLen, paddingEnd, plainLen)

\* ZeroOverheadHandler.Decrypt, lines 153-217
Decrypt(h, packet) ==
    IF PassThrough(h, packet) THEN Ok(packet)
    ELSE LET dst == AESDecrypt(SubSeq(packet, 1, AesBlockSize))
             nonceStart == Len(packet) - NonceSizeX
             nonce == SubSeq(packet, nonceStart + 1, Len(packet))
             opened == Open(nonce, SubSeq(packet, AesBlockSize + 1, nonceStart))
             plaintext == dst \o opened.out
             paddingEnd == Len(plaintext) - 2
             remainingPayloadSize == Uint16(SubSeq(plaintext, paddingEnd + 1, Len(plaintext)))
             dstLen == Len(dst) + remainingPayloadSize
         IN  IF ~IsControlPacket(dst[1]) THEN Ok(dst \o SubSeq(packet, AesBlockSize + 1, Len(packet)))
             ELSE IF Len(packet) < MinControlPacketLen THEN Err
             ELSE IF opened.err THEN Err
             ELSE IF Len(plaintext) < 2 THEN Err
             ELSE IF dstLen > paddingEnd THEN Err
             ELSE Ok(SubSeq(plaintext, 1, dstLen))

\* the packets handed to Encrypt: a message type, then bytes of a pattern
MessageTypes == {0, 1, 3, 6, 7, 255}
PacketLens == {3, AesBlockSize - 1} \cup (AesBlockSize..MaxLen)
Packets ==
    {[i \in 1..n |-> IF i = 1 THEN ty ELSE (f + 5 * i) % 256] :
        ty \in MessageTypes, n \in PacketLens, f \in {0, 250}}
RandomFills == {0, 255}

\* kind says how the bytes handed to Decrypt were made; panic whether
\* Decrypt panicked instead of returning
ObfNone ==
    [pc |-> "none", h |-> NoHandler, P |-> <<>>, enc |-> Ok(<<>>), dec |-> Ok(<<>>),
     kind |-> "none", panic |-> FALSE]

InitObf == obf = ObfNone

ObfNew ==
    /\ obf.pc = "none"
    /\ \E enabled \in BOOLEAN :
         obf' = [ObfNone EXCEPT !.pc = "ready",
                                !.h = NewZeroOverheadHandler(maxPacketSize, enabled)]

ObfEncrypt ==
    /\ obf.pc = "ready"
    /\ \E packet \in Packets :
         \E paddingLen \in PaddingLens(obf.h, packet), pb \in RandomFills, nb \in RandomFills :
            obf' = [obf EXCEPT !.pc = "encrypted", !.P = packet, !.kind = "valid",
                               !.enc = Encrypt(obf.h, packet, paddingLen,
                                               Fill(paddingLen, pb), Fill(NonceSizeX, nb))]

ObfDecrypt ==
    /\ obf.pc = "encrypted"
    /\ ~obf.enc.err
    /\ obf' = [obf EXCEPT !.pc = "decrypted",
                          !.panic = DecryptPanics(obf.h, obf.enc.out),
                          !.dec = IF DecryptPanics(obf.h, obf.enc.out) THEN Err
                                  ELSE Decrypt(obf.h, obf.enc.out)]

\* what a damaged control ciphertext c may look like on arrival: its last
\* nonce byte missing, cut to any shorter length of at least one block
\* ("short" below the 16 + 2 + 16 + 24 bytes of the shortest control
\* ciphertext), or one byte of the sealed body, of the tag or of the nonce
\* changed
Manglings(c) ==
    {[kind |-> "nonce-1", bytes |-> SubSeq(c, 1, Len(c) - 1)]}
    \cup {[kind |-> IF n < AesBlockSize + 2 + Overhead + NonceSizeX THEN "short" ELSE "cut",
           bytes |-> SubSeq(c, 1, n)] : n \in AesBlockSize..(Len(c) - 2)}
    \cup {[kind |-> "tampered", bytes |-> [c EXCEPT ![i] = (@ + 1) % 256]] :
              i \in {AesBlockSize + 1, Len(c) - NonceSizeX, Len(c) - NonceSizeX + 1, Len(c)}}

\* the network damages a control ciphertext before Decrypt sees it
ObfMangle ==
    /\ obf.pc = "encrypted"
    /\ obf.kind = "valid"
    /\ ~obf.enc.err
    /\ obf.h.enabled
    /\ Len(obf.P) >= AesBlockSize
    /\ IsControlPacket(obf.P[1])
    /\ \E m \in Manglings(obf.enc.out) :
         obf' = [obf EXCEPT !.enc = Ok(m.bytes), !.kind = m.kind]

\* a holder of the key seals a body laid out as in lines 129-147 whose
\* trailing length field n exceeds the padded body
ObfForge ==
    /\ obf.pc = "ready"
    /\ obf.h.enabled
    /\ \E packet \in Packets :
         /\ Len(packet) >= AesBlockSize
         /\ IsControlPacket(packet[1])
         /\ ~TooLarge(obf.h, packet)
         /\ \E paddingLen \in PaddingLens(obf.h, packet), nb \in RandomFills :
              LET remainingPayload == SubSeq(packet, AesBlockSize + 1, Len(packet))
                  nonce == Fill(NonceSizeX, nb)
              IN  \E n \in {Len(remainingPayload) + paddingLen + 1, 65535} :
                    obf' = [obf EXCEPT
                              !.pc = "encrypted", !.P = packet, !.kind = "badlen",
                              !.enc = Ok(AESEncrypt(SubSeq(packet, 1, AesBlockSize))
                                         \o Seal(nonce, remainingPayload
                                                          \o Fill(paddingLen, 0)
                                                          \o AppendUint16(n))
                                         \o nonce)]

\* the caller is done with the packet
ObfNext ==
    /\ \/ obf.pc = "decrypted"
       \/ obf.pc = "encrypted" /\ obf.enc.err
    /\ obf' = [ObfNone EXCEPT !.pc = "ready", !.h = obf.h]

NextDecrypt ==
    \/ ObfNew
    \/ ObfEncrypt
    \/ ObfMangle
    \/ ObfForge
    \/ ObfDecrypt
    \/ ObfNext

NextObf ==
    \/ ObfNew
    \/ ObfEncrypt
    \/ ObfDecrypt
    \/ ObfNext

(***************************************************************************)
(* faketcp.Socket and faketcp.Stack.                                       *)
(*                                                                         *)
(* Two nodes: the client A, whose stack runs Connect for the socket c, and *)
(* the server B, whose packet reader creates the socket s for an inbound   *)
(* SYN.  Each stack has one TUN queue and one packet reader.  A packet is  *)
(* its flags, sequence number, acknowledgement number and payload length.  *)
(* A write to a node's TUN puts the packet on the queue the other node's   *)
(* reader reads.  The stack's mutex is held over several steps only by     *)
(* Stack.Close; every other critical section is one step.                  *)
(*                                                                         *)
(* Time: the tunnel and the goroutines are faster than ConnTimeout, so a   *)
(* timer of a select fires only in a state where no packet is under way.   *)
(***************************************************************************)
SYN == 2
ACK == 16
RetryCount == 6
ConnTimeout == 3
IncomingQueueSize == 512
RecvQueueSize == 1024

\* a uint32 is the pair of its high and low 16-bit halves
Half == 65536
U32(hi, lo) == <<hi, lo>>
MaxUnackedLen == U32(2048, 0)

Nodes == {"A", "B"}
Other(n) == IF n = "A" THEN "B" ELSE "A"
SockNode(x) == IF x = "c" THEN "A" ELSE "B"
Rd(n) == IF n = "A" THEN "rdA" ELSE "rdB"

\* the values rand.Uint32() gives a new socket's seq
ISNs == {U32(0, 7), U32(Half - 1, Half - 1)}

HasFlag(flags, f) == (flags \div f) % 2 = 1

NoSocket ==
    [exists |-> FALSE, state |-> "Idle", seq |-> U32(0, 0), ack |-> U32(0, 0),
     lastAck |-> U32(0, 0), isn |-> U32(0, 0), closed |-> FALSE, closeChan |-> FALSE, incoming |-> <<>>,
     closes |-> 0,   \* times close(s.closeChan) was executed
     sent |-> <<>>]  \* the data segments written by concurrent Send calls

\* newSocket, lines 66-83, with initialAck 0 and state Idle
newSocket(isn) == [NoSocket EXCEPT !.exists = TRUE, !.seq = isn, !.isn = isn]

\* BuildTCPPacket as sendPacket calls it, lines 274-282
Packet(x, flags, len) ==
    [flags |-> flags, seq |-> x.seq, ack |-> x.ack, len |-> len]

\* the packet variable of a reader that holds none
NoPacket == [flags |-> 0, seq |-> U32(0, 0), ack |-> U32(0, 0), len |-> 0]

\* Tun.Write of the socket's node succeeds unless the TUN is closed
CanWrite(x) == ~tun[SockNode(x)].closed

\* the TUN queues after a successful write on node n
Wire(n, pkt) ==
    [tun EXCEPT ![Other(n)].rq = IF Len(@) < MaxInFlight THEN Append(@, pkt) ELSE @]

SeqPlus_Same(v, d) == v

\* uint32 addition of d < 2^16, as atomic.Uint32.Add and `+` do it
SeqPlus(v, d) == U32((v[1] + (v[2] + d) \div Half) % Half, (v[2] + d) % Half)

ThreadsInit ==
    [conn |-> [pc |-> "idle", i |-> 0, res |-> "none", elapsed |-> 0],
     acc |-> [pc |-> "none", i |-> 0, res |-> "none", syn |-> U32(0, 0)],
     rdA |-> [pc |-> "top"],
     rdB |-> [pc |-> "top"],
     rdB2 |-> [pc |-> "top", pkt |-> NoPacket],
     rdQ |-> [pc |-> "top", pkt |-> NoPacket, sock |-> "none"],
     snd |-> [pc |-> "idle", res |-> "none"],
     snd1 |-> [pc |-> "idle", res |-> "none", len |-> 0, n |-> 0],
     snd2 |-> [pc |-> "idle", res |-> "none", len |-> 0, n |-> 0],
     rcv |-> [pc |-> "idle", res |-> "none", got |-> U32(0, 0)],
     cls |-> [pc |-> "idle"],
     cls2 |-> [pc |-> "idle"],
     stop |-> [pc |-> "idle"],
     stop2 |-> [pc |-> "idle"],
     al |-> [pc |-> "none"],
     hs |-> [pc |-> "none", res |-> "none", got |-> U32(0, 0)],
     bc |-> [pc |-> "idle", stage |-> "none"],
     cs |-> [pc |-> "connect", res |-> "none"],
     sv |-> [pc |-> "idle", res |-> "none"]]

InitTcp ==
    /\ sk = [x \in {"c", "s"} |-> NoSocket]
    /\ stk = [n \in Nodes |-> [sockets |-> "none", listening |-> FALSE,
                               stopped |-> FALSE, mu |-> "free", acceptQueue |-> <<>>]]
    /\ tun = [n \in Nodes |-> [closed |-> FALSE, rq |-> <<>>, injected |-> 0]]
    /\ th = ThreadsInit
    /\ rnd \in [{"c", "s"} -> ISNs]
    /\ bnd = [opened |-> FALSE, closed |-> FALSE, stopChan |-> FALSE, mu |-> "free",
              sockets |-> {}, recvQueue |-> <<>>,
              yielded |-> <<>>,     \* what the server's receive function returned
              \* the client's bind: its sockets, its queue, what it returned
              csockets |-> {}, crecvQueue |-> <<>>, cyielded |-> <<>>]

\* no packet is under way and no handshake goroutine is about to send
Quiet ==
    /\ \A n \in Nodes : tun[n].rq = <<>> \/ th[Rd(n)].pc = "exit"
    /\ \A x \in {"c", "s"} : sk[x].incoming = <<>>
    /\ th.rdB2.pc # "handle"
    /\ th.conn.pc \notin {"c_start", "c_syn"}
    /\ th.acc.pc # "a_start"

\* the cases of a handshake select that are ready
Ready(x) ==
    (IF x.incoming # <<>> THEN {"incoming"} ELSE {})
    \cup (IF x.closeChan THEN {"closeChan"} ELSE {})
    \cup (IF Quiet /\ ~x.closeChan THEN {"timeout"} ELSE {})

(***************************************************************************)
(* Socket.Close, lines 302-320, and Stack.unregisterSocket, as run by the  *)
(* goroutine t on the socket x; the goroutine goes on at the pc `after`.   *)
(***************************************************************************)
ClosePcs == {"k_swap", "k_mark", "k_unreg"}

\* what s.closed.Swap(true) returns, line 303
SwapOld_Never(x) == FALSE
SwapOld(x) == sk[x].closed

CloseSteps(t, x, after) ==
    CASE th[t].pc = "k_swap" ->
            /\ sk' = [sk EXCEPT ![x].closed = TRUE]
            /\ th' = [th EXCEPT ![t].pc = IF SwapOld(x) THEN after ELSE "k_mark"]
            /\ UNCHANGED <<stk, tun>>
      [] th[t].pc = "k_mark" ->
            /\ sk' = [sk EXCEPT ![x].state = "Closed", ![x].closeChan = TRUE,
                                ![x].closes = @ + 1]
            /\ th' = [th EXCEPT ![t].pc = "k_unreg"]
            /\ UNCHANGED <<stk, tun>>
      [] th[t].pc = "k_unreg" ->
            /\ stk[SockNode(x)].mu = "free"
            /\ stk' = [stk EXCEPT ![SockNode(x)].sockets = "none"]
            /\ th' = [th EXCEPT ![t].pc = after]
            /\ UNCHANGED <<sk, tun>>

(***************************************************************************)
(* Stack.Connect, src/faketcp/stack.go 83-119, and Socket.Connect.         *)
(***************************************************************************)
\* stack.go 103-110
ConnBegin ==
    /\ stk["A"].mu = "free"
    /\ sk' = [sk EXCEPT !["c"] = newSocket(rnd["c"])]
    /\ stk' = [stk EXCEPT !["A"].sockets = "c"]
    /\ th' = [th EXCEPT !.conn.pc = "c_start"]
    /\ UNCHANGED tun

\* lines 87-93
ConnStart ==
    /\ IF sk["c"].state # "Idle"
       THEN /\ th' = [th EXCEPT !.conn.pc = "c_unreg", !.conn.res = "notidle"]
            /\ UNCHANGED sk
       ELSE /\ sk' = [sk EXCEPT !["c"].state = "SynSent"]
            /\ th' = [th EXCEPT !.conn.pc = "c_syn"]
    /\ UNCHANGED <<stk, tun>>

\* lines 96-102 and 139-142
ConnSendSyn ==
    /\ IF th.conn.i >= RetryCount
       THEN /\ sk' = [sk EXCEPT !["c"].state = "Closed"]
            /\ th' = [th EXCEPT !.conn.pc = "c_unreg", !.conn.res = "timeout"]
            /\ UNCHANGED tun
       ELSE IF CanWrite("c")
       THEN /\ tun' = Wire("A", Packet(sk["c"], SYN, 0))
            /\ th' = [th EXCEPT !.conn.pc = "c_wait"]
            /\ UNCHANGED sk
       ELSE /\ th' = [th EXCEPT !.conn.i = @ + 1, !.conn.elapsed = @ + ConnTimeout]
            /\ UNCHANGED <<sk, tun>>
    /\ UNCHANGED stk

\* lines 105-136; a packet that ends the wait is taken as soon as it is
\* queued, so the wait it ends adds no time
ConnWait ==
    /\ \E case \in Ready(sk["c"]) :
         LET pkt == Head(sk["c"].incoming)
             got == [sk["c"] EXCEPT !.incoming = Tail(@)]
             ackd == [got EXCEPT !.seq = SeqPlus(@, 1),
                                 !.ack = SeqPlus(pkt.seq, 1),
                                 !.lastAck = SeqPlus(pkt.seq, 1)]
         IN  CASE case = "incoming" /\ pkt.flags = SYN + ACK /\ CanWrite("c") ->
                    /\ sk' = [sk EXCEPT !["c"] = [ackd EXCEPT !.state = "Established"]]
                    /\ tun' = Wire("A", Packet(ackd, ACK, 0))
                    /\ th' = [th EXCEPT !.conn.pc = "ret", !.conn.res = "ok"]
               [] case = "incoming" /\ pkt.flags = SYN + ACK /\ ~CanWrite("c") ->
                    /\ sk' = [sk EXCEPT !["c"] = ackd]
                    /\ th' = [th EXCEPT !.conn.pc = "c_syn", !.conn.i = @ + 1]
                    /\ UNCHANGED tun
               [] case = "incoming" /\ pkt.flags # SYN + ACK ->
                    /\ sk' = [sk EXCEPT !["c"] = got]
                    /\ th' = [th EXCEPT !.conn.pc = "c_syn", !.conn.i = @ + 1]
                    /\ UNCHANGED tun
               [] case = "timeout" ->
                    /\ th' = [th EXCEPT !.conn.pc = "c_syn", !.conn.i = @ + 1,
                                        !.conn.elapsed = @ + ConnTimeout]
                    /\ UNCHANGED <<sk, tun>>
               [] case = "closeChan" ->
                    /\ th' = [th EXCEPT !.conn.pc = "c_unreg", !.conn.res = "closed"]
                    /\ UNCHANGED <<sk, tun>>
    /\ UNCHANGED stk

\* stack.go 113-116
ConnUnreg ==
    /\ stk["A"].mu = "free"
    /\ stk' = [stk EXCEPT !["A"].sockets = "none"]
    /\ th' = [th EXCEPT !.conn.pc = "ret"]
    /\ UNCHANGED <<sk, tun>>

ConnectStep ==
    /\ th.conn.pc \in {"idle", "c_start", "c_syn", "c_wait", "c_unreg"}
    /\ CASE th.conn.pc = "idle" -> ConnBegin
         [] th.conn.pc = "c_start" -> ConnStart
         [] th.conn.pc = "c_syn" -> ConnSendSyn
         [] th.conn.pc = "c_wait" -> ConnWait
         [] th.conn.pc = "c_unreg" -> ConnUnreg

(***************************************************************************)
(* Socket.Accept, lines 146-201, run by the goroutine Stack.handlePacket   *)
(* starts (stack.go 204-216).                                              *)
(***************************************************************************)
\* lines 147-165
AccStart ==
    /\ IF sk["s"].state # "Idle"
       THEN /\ th' = [th EXCEPT !.acc.pc = "k_swap", !.acc.res = "notidle"]
            /\ UNCHANGED <<sk, tun>>
       ELSE LET s1 == [sk["s"] EXCEPT !.ack = SeqPlus(th.acc.syn, 1),
                                      !.lastAck = SeqPlus(th.acc.syn, 1)]
            IN  IF CanWrite("s")
                THEN /\ sk' = [sk EXCEPT !["s"] = [s1 EXCEPT !.state = "SynReceived"]]
                     /\ tun' = Wire("B", Packet(s1, SYN + ACK, 0))
                     /\ th' = [th EXCEPT !.acc.pc = "a_wait"]
                ELSE /\ sk' = [sk EXCEPT !["s"] = [s1 EXCEPT !.state = "Closed"]]
                     /\ th' = [th EXCEPT !.acc.pc = "k_swap", !.acc.res = "sendfail"]
                     /\ UNCHANGED tun
    /\ UNCHANGED stk

\* lines 168-200
AccWait ==
    /\ IF th.acc.i >= RetryCount
       THEN /\ sk' = [sk EXCEPT !["s"].state = "Closed"]
            /\ th' = [th EXCEPT !.acc.pc = "k_swap", !.acc.res = "timeout"]
            /\ UNCHANGED tun
       ELSE \E case \in Ready(sk["s"]) :
              LET pkt == Head(sk["s"].incoming)
                  got == [sk["s"] EXCEPT !.incoming = Tail(@)]
              IN  CASE case = "incoming" /\ HasFlag(pkt.flags, ACK) ->
                         /\ sk' = [sk EXCEPT !["s"] = [got EXCEPT !.seq = SeqPlus(@, 1),
                                                                  !.state = "Established"]]
                         /\ th' = [th EXCEPT !.acc.pc = "a_queue", !.acc.res = "ok"]
                         /\ UNCHANGED tun
                    [] case = "incoming" /\ ~HasFlag(pkt.flags, ACK) ->
                         /\ sk' = [sk EXCEPT !["s"] = got]
                         /\ th' = [th EXCEPT !.acc.i = @ + 1]
                         /\ UNCHANGED tun
                    [] case = "timeout" ->
                         /\ tun' = IF CanWrite("s")
                                   THEN Wire("B", Packet(sk["s"], SYN + ACK, 0))
                                   ELSE tun
                         /\ th' = [th EXCEPT !.acc.i = @ + 1]
                         /\ UNCHANGED sk
                    [] case = "closeChan" ->
                         /\ th' = [th EXCEPT !.acc.pc = "k_swap", !.acc.res = "closed"]
                         /\ UNCHANGED <<sk, tun>>
    /\ UNCHANGED stk

\* stack.go 211-215: the accepted socket goes to the accept queue
AccQueue ==
    /\ IF stk["B"].stopped
       THEN UNCHANGED stk
       ELSE stk' = [stk EXCEPT !["B"].acceptQueue = Append(@, "s")]
    /\ th' = [th EXCEPT !.acc.pc = "done"]
    /\ UNCHANGED <<sk, tun>>

AcceptStep ==
    /\ th.acc.pc \in {"a_start", "a_wait", "a_queue"} \cup ClosePcs
    /\ CASE th.acc.pc = "a_start" -> AccStart
         [] th.acc.pc = "a_wait" -> AccWait
         [] th.acc.pc = "a_queue" -> AccQueue
         [] th.acc.pc \in ClosePcs -> CloseSteps("acc", "s", "done")

(***************************************************************************)
(* Stack.packetReader and Stack.handlePacket, stack.go 122-219, with       *)
(* Tun.Read, src/faketcp/tun.go 159-168, and Socket.handleIncoming.        *)
(***************************************************************************)
QueueFull_Never(x) == FALSE

\* lines 294-298: the send on s.incoming takes the default case
QueueFull(x) == Len(x.incoming) >= IncomingQueueSize

\* Socket.handleIncoming, lines 285-299
handleIncoming(x, pkt) ==
    IF x.closed \/ QueueFull(x) THEN x
    ELSE [x EXCEPT !.incoming = Append(@, pkt)]

\* stack.go 127-134 and tun.go 160-166: the reader enters Tun.Read, where it
\* holds the TUN's read lock until a packet arrives
ReaderTop(n) ==
    /\ th' = [th EXCEPT ![Rd(n)].pc = IF stk[n].stopped THEN "exit"
                                      ELSE IF tun[n].closed THEN "top"
                                      ELSE "read"]
    /\ UNCHANGED <<sk, stk, tun>>

\* Stack.handlePacket, stack.go 161-219, run by the reader r, which goes
\* back to the top of its loop as `parked`.  The server accepts one
\* connection: a SYN that finds the socket s used is ignored.
handlePacket(n, r, pkt, parked) ==
    LET x == stk[n].sockets
    IN  IF x # "none"
        THEN /\ sk' = [sk EXCEPT ![x] = handleIncoming(sk[x], pkt)]
             /\ th' = [th EXCEPT ![r] = parked]
             /\ UNCHANGED stk
        ELSE IF pkt.flags = SYN /\ stk[n].listening /\ ~sk["s"].exists
        THEN /\ sk' = [sk EXCEPT !["s"] = newSocket(rnd["s"])]
             /\ stk' = [stk EXCEPT ![n].sockets = "s"]
             /\ th' = [th EXCEPT ![r] = parked,
                                 !.acc = [pc |-> "a_start", i |-> 0,
                                          res |-> "none", syn |-> pkt.seq]]
        ELSE /\ th' = [th EXCEPT ![r] = parked]
             /\ UNCHANGED <<sk, stk>>

\* tun.go 167 and stack.go 145-157: Tun.Read returns a packet, which the
\* reader parses and handles
ReaderHandle(n) ==
    /\ tun[n].rq # <<>>
    /\ stk[n].mu = "free"
    /\ tun' = [tun EXCEPT ![n].rq = Tail(@)]
    /\ handlePacket(n, Rd(n), Head(tun[n].rq), [pc |-> "top"])

Reader(n) ==
    /\ th[Rd(n)].pc \in {"top", "read"}
    /\ CASE th[Rd(n)].pc = "top" -> ReaderTop(n)
         [] th[Rd(n)].pc = "read" -> ReaderHandle(n)

\* the packetReader of a second queue of the server's TUN device (NewStack
\* starts one reader for each queue, stack.go 50-53).  tun[n].rq holds the
\* packets in the order they arrived on the device; the kernel hands the
\* next one to the queue of either reader.  This reader's Tun.Read and its
\* handlePacket are two steps, so that the other reader can run in between.
Reader2 ==
    /\ th.rdB2.pc \in {"top", "read", "handle"}
    /\ CASE th.rdB2.pc = "top" ->
              /\ th' = [th EXCEPT !.rdB2.pc = IF stk["B"].stopped THEN "exit"
                                              ELSE IF tun["B"].closed THEN "top"
                                              ELSE "read"]
              /\ UNCHANGED <<sk, stk, tun>>
         [] th.rdB2.pc = "read" ->
              /\ tun["B"].rq # <<>>
              /\ tun' = [tun EXCEPT !["B"].rq = Tail(@)]
              /\ th' = [th EXCEPT !.rdB2 = [pc |-> "handle", pkt |-> Head(tun["B"].rq)]]
              /\ UNCHANGED <<sk, stk>>
         [] th.rdB2.pc = "handle" ->
              /\ stk["B"].mu = "free"
              /\ handlePacket("B", "rdB2", th.rdB2.pkt, [pc |-> "top", pkt |-> NoPacket])
              /\ UNCHANGED tun

\* the client's packetReader with Stack.handlePacket and
\* Socket.handleIncoming step by step: Tun.Read and the lookup of the
\* socket under s.mu (stack.go 145-176), the test of s.closed (part_000
\* 286-288), and the send on s.incoming or its default case (294-298).  The
\* client listens on no port, so a packet that finds no socket is dropped.
PacketReader ==
    /\ th.rdQ.pc \in {"top", "read", "h_closed", "h_put"}
    /\ CASE th.rdQ.pc = "top" ->
              /\ th' = [th EXCEPT !.rdQ.pc = IF stk["A"].stopped THEN "exit"
                                             ELSE IF tun["A"].closed THEN "top"
                                             ELSE "read"]
              /\ UNCHANGED <<sk, stk, tun>>
         [] th.rdQ.pc = "read" ->
              /\ tun["A"].rq # <<>>
              /\ stk["A"].mu = "free"
              /\ tun' = [tun EXCEPT !["A"].rq = Tail(@)]
              /\ th' = [th EXCEPT !.rdQ =
                           IF stk["A"].sockets = "none"
                           THEN [pc |-> "top", pkt |-> NoPacket, sock |-> "none"]
                           ELSE [pc |-> "h_closed", pkt |-> Head(tun["A"].rq),
                                 sock |-> stk["A"].sockets]]
              /\ UNCHANGED <<sk, stk>>
         [] th.rdQ.pc = "h_closed" ->
              /\ th' = [th EXCEPT !.rdQ =
                           IF sk[th.rdQ.sock].closed
                           THEN [pc |-> "top", pkt |-> NoPacket, sock |-> "none"]
                           ELSE [@ EXCEPT !.pc = "h_put"]]
              /\ UNCHANGED <<sk, stk, tun>>
         [] th.rdQ.pc = "h_put" ->
              /\ sk' = [sk EXCEPT ![th.rdQ.sock].incoming =
                           IF QueueFull(sk[th.rdQ.sock]) THEN @
                           ELSE Append(@, th.rdQ.pkt)]
              /\ th' = [th EXCEPT !.rdQ = [pc |-> "top", pkt |-> NoPacket,
                                           sock |-> "none"]]
              /\ UNCHANGED <<stk, tun>>

\* the server sends data segments one after the other, numbered by their
\* sequence numbers, once its Accept and the client's Connect have
\* returned from a handshake without retransmission, and until the client
\* socket is closed; the client's application does not call Recv
Flood ==
    /\ th.conn.pc = "ret" /\ th.conn.res = "ok" /\ th.conn.i = 0
    /\ th.acc.pc = "done" /\ th.acc.res = "ok" /\ th.acc.i = 0
    /\ tun["B"].rq = <<>>
    /\ ~sk["c"].closed
    /\ tun["A"].injected < MaxFlood
    /\ Len(tun["A"].rq) < MaxInFlight
    /\ tun' = [tun EXCEPT !["A"].injected = @ + 1,
                          !["A"].rq = Append(@, [flags |-> ACK,
                                                 seq |-> U32(0, tun["A"].injected + 1),
                                                 ack |-> U32(0, 0), len |-> 1])]
    /\ UNCHANGED <<sk, stk, th>>

\* Stack.Listen on the server, stack.go 59-70
Listen ==
    /\ stk["B"].mu = "free"
    /\ ~stk["B"].listening
    /\ stk' = [stk EXCEPT !["B"].listening = TRUE]
    /\ UNCHANGED <<sk, tun, th>>

NextHandshake ==
    \/ ConnectStep
    \/ AcceptStep
    \/ \E n \in Nodes : Reader(n)
    \/ Listen

(***************************************************************************)
(* The calls of the application on the client socket c: one Send, one      *)
(* Recv, one Close, and one Stack.Close on the client's stack.             *)
(***************************************************************************)
\* the socket has reached Closed: a Close() on it has returned, or the
\* retries of its Connect were exhausted
ClosedReached ==
    \/ th.cls.pc = "done"
    \/ th.conn.pc \in {"c_unreg", "ret"} /\ th.conn.res = "timeout"

\* uint32 subtraction and comparison, as `newAck-lastAck > MaxUnackedLen`
SeqMinus(a, b) ==
    U32((a[1] + Half - b[1] - (IF a[2] < b[2] THEN 1 ELSE 0)) % Half,
        (a[2] + Half - b[2]) % Half)
Greater32(a, b) == a[1] > b[1] \/ (a[1] = b[1] /\ a[2] > b[2])

\* Socket.Send, lines 204-226, with a payload of one byte
SendStep ==
    /\ sk["c"].exists
    /\ th.snd.pc \in {"idle", "s_closed", "s_write"}
    /\ CASE th.snd.pc = "idle" ->
              /\ th' = [th EXCEPT !.snd = [pc |-> IF sk["c"].state = "Established"
                                                  THEN "s_closed" ELSE "ret",
                                           res |-> IF sk["c"].state = "Established"
                                                   THEN "none" ELSE "notestablished"]]
              /\ UNCHANGED <<sk, tun>>
         [] th.snd.pc = "s_closed" ->
              /\ th' = IF sk["c"].closed
                       THEN [th EXCEPT !.snd.pc = "ret", !.snd.res = "closed"]
                       ELSE [th EXCEPT !.snd.pc = "s_write"]
              /\ UNCHANGED <<sk, tun>>
         [] th.snd.pc = "s_write" ->
              IF CanWrite("c")
              THEN /\ tun' = Wire("A", Packet(sk["c"], ACK, 1))
                   /\ sk' = [sk EXCEPT !["c"].seq = SeqPlus(@, 1)]
                   /\ th' = [th EXCEPT !.snd.pc = "ret", !.snd.res = "ok"]
              ELSE /\ th' = [th EXCEPT !.snd.pc = "ret", !.snd.res = "sendfail"]
                   /\ UNCHANGED <<sk, tun>>
    /\ UNCHANGED stk

\* the application calls Send again, up to MaxSends payloads in all
SendMore ==
    /\ th.snd.pc = "ret"
    /\ th.snd.res = "ok"
    /\ SeqMinus(sk["c"].seq, rnd["c"])[2] <= MaxSends
    /\ th' = [th EXCEPT !.snd = [pc |-> "idle", res |-> "none"]]
    /\ UNCHANGED <<sk, stk, tun>>

\* the payload lengths of the concurrent Send calls
SendLens == {0, 1, 2}

\* Socket.Send, lines 204-226, and sendPacket, lines 274-282, called on the
\* client socket by the goroutine t beside the Send calls of another
\* goroutine: sendPacket loads s.seq and writes the segment, and Send adds
\* len(data) to s.seq afterwards, line 223.  The callers hold the socket
\* Stack.Connect returned, stack.go 118.
SendSteps(t) ==
    /\ th.conn.pc = "ret" /\ th.conn.res = "ok"
    /\ CASE th[t].pc \in {"idle", "ret"} ->
              /\ th.snd1.n + th.snd2.n < MaxSends
              /\ \E len \in SendLens :
                    th' = [th EXCEPT ![t] = [pc |-> IF sk["c"].state = "Established"
                                                    THEN "s_closed" ELSE "ret",
                                             res |-> IF sk["c"].state = "Established"
                                                     THEN "none" ELSE "notestablished",
                                             len |-> len, n |-> th[t].n + 1]]
              /\ UNCHANGED <<sk, tun>>
         [] th[t].pc = "s_closed" ->
              /\ th' = IF sk["c"].closed
                       THEN [th EXCEPT ![t].pc = "ret", ![t].res = "closed"]
                       ELSE [th EXCEPT ![t].pc = "s_write"]
              /\ UNCHANGED <<sk, tun>>
         [] th[t].pc = "s_write" ->
              IF CanWrite("c")
              THEN /\ tun' = Wire("A", Packet(sk["c"], ACK, th[t].len))
                   /\ sk' = [sk EXCEPT !["c"].sent =
                                 Append(@, [seq |-> sk["c"].seq, len |-> th[t].len])]
                   /\ th' = [th EXCEPT ![t].pc = "s_add"]
              ELSE /\ th' = [th EXCEPT ![t].pc = "ret", ![t].res = "sendfail"]
                   /\ UNCHANGED <<sk, tun>>
         [] th[t].pc = "s_add" ->
              /\ sk' = [sk EXCEPT !["c"].seq = SeqPlus(@, th[t].len)]
              /\ th' = [th EXCEPT ![t].pc = "ret", ![t].res = "ok"]
              /\ UNCHANGED tun
    /\ UNCHANGED stk

\* the two goroutines of the application that call Send
SendCallers == {"snd1", "snd2"}
SendCall1 == SendSteps("snd1")
SendCall2 == SendSteps("snd2")

TooFarAhead_NoWrap(newAck, lastAck) ==
    Greater32(newAck, lastAck) /\ Greater32(SeqMinus(newAck, lastAck), MaxUnackedLen)

\* line 257: `newAck-lastAck > MaxUnackedLen` in uint32 arithmetic
TooFarAhead(newAck, lastAck) == Greater32(SeqMinus(newAck, lastAck), MaxUnackedLen)

NewAck_SeqOnly(pkt) == pkt.seq

\* line 252: `pkt.Seq + uint32(len(payload))`
NewAck(pkt) == SeqPlus(pkt.seq, pkt.len)

\* Socket.Recv, lines 229-271, called by the goroutine t on the socket x; got
\* is the sequence number of the packet whose payload it returns.  s.ack and
\* s.lastAck are stored one after the other, lines 253 and 258.
RecvSteps(t, x) ==
    /\ CASE th[t].pc \in {"idle", "r_state"} ->
              /\ th' = [th EXCEPT ![t].pc = IF sk[x].state = "Established"
                                             THEN "r_select" ELSE "ret",
                                  ![t].res = IF sk[x].state = "Established"
                                             THEN "none" ELSE "notestablished"]
              /\ UNCHANGED <<sk, tun>>
         [] th[t].pc = "r_select" ->
              /\ sk[x].incoming # <<>> \/ sk[x].closeChan
              /\ \E case \in Ready(sk[x]) \ {"timeout"} :
                  (LET pkt == Head(sk[x].incoming)
                       newAck == NewAck(pkt)
                       far == TooFarAhead(newAck, sk[x].lastAck)
                   IN  CASE case = "incoming" /\ pkt.len = 0 ->
                              /\ sk' = [sk EXCEPT ![x].incoming = Tail(@)]
                              /\ th' = [th EXCEPT ![t].pc = "r_state"]
                              /\ UNCHANGED tun
                         [] case = "incoming" /\ pkt.len > 0 ->
                              /\ sk' = [sk EXCEPT ![x].incoming = Tail(@),
                                                  ![x].ack = newAck]
                              /\ th' = [th EXCEPT ![t].pc = IF far THEN "r_ack" ELSE "ret",
                                                  ![t].res = IF far THEN "none" ELSE "ok",
                                                  ![t].got = pkt.seq]
                              /\ UNCHANGED tun
                         [] case = "closeChan" ->
                              /\ th' = [th EXCEPT ![t].pc = "ret", ![t].res = "closed"]
                              /\ UNCHANGED <<sk, tun>>)
         [] th[t].pc = "r_ack" ->
              /\ sk' = [sk EXCEPT ![x].lastAck = sk[x].ack]
              /\ tun' = IF CanWrite(x)
                        THEN Wire(SockNode(x), Packet(sk'[x], ACK, 0))
                        ELSE tun
              /\ th' = [th EXCEPT ![t].pc = "ret", ![t].res = "ok"]
    /\ UNCHANGED stk

\* Recv called by the application on the client socket
RecvStep ==
    /\ sk["c"].exists
    /\ th.rcv.pc \in {"idle", "r_state", "r_select", "r_ack"}
    /\ RecvSteps("rcv", "c")

\* Socket.Close called by the application
SockCloseStep ==
    /\ sk["c"].exists
    /\ th.cls.pc \in {"idle"} \cup ClosePcs
    /\ IF th.cls.pc = "idle"
       THEN /\ th' = [th EXCEPT !.cls.pc = "k_swap"]
            /\ UNCHANGED <<sk, stk, tun>>
       ELSE CloseSteps("cls", "c", "done")

\* Socket.Close called by a second goroutine of the application
SockCloseStep2 ==
    /\ sk["c"].exists
    /\ th.cls2.pc \in {"idle"} \cup ClosePcs
    /\ IF th.cls2.pc = "idle"
       THEN /\ th' = [th EXCEPT !.cls2.pc = "k_swap"]
            /\ UNCHANGED <<sk, stk, tun>>
       ELSE CloseSteps("cls2", "c", "done")

\* Stack.Close, stack.go 231-252, run by the goroutine t on the stack of the
\* node n, with Tun.Close, src/faketcp/tun.go 183-193, which waits for the
\* reader to leave Tun.Read; close(s.stopChan) of a closed channel panics
StackClosePcs == {"t_stop", "t_tun", "t_wait", "t_lock", "t_reset"}

StackCloseSteps(t, n, after) ==
    CASE th[t].pc = "t_stop" ->
              /\ stk' = [stk EXCEPT ![n].stopped = TRUE]
              /\ th' = [th EXCEPT ![t].pc = IF stk[n].stopped THEN "panic" ELSE "t_tun"]
              /\ UNCHANGED <<sk, tun>>
         [] th[t].pc = "t_tun" ->
              /\ th[Rd(n)].pc # "read"
              /\ tun' = [tun EXCEPT ![n].closed = TRUE]
              /\ th' = [th EXCEPT ![t].pc = "t_wait"]
              /\ UNCHANGED <<sk, stk>>
         [] th[t].pc = "t_wait" ->
              /\ th[Rd(n)].pc = "exit"
              /\ th' = [th EXCEPT ![t].pc = "t_lock"]
              /\ UNCHANGED <<sk, stk, tun>>
         [] th[t].pc = "t_lock" ->
              /\ stk[n].mu = "free"
              /\ stk' = [stk EXCEPT ![n].mu = "stop"]
              /\ th' = [th EXCEPT ![t].pc = IF stk[n].sockets = "none"
                                            THEN "t_reset" ELSE "k_swap"]
              /\ UNCHANGED <<sk, tun>>
         [] th[t].pc \in ClosePcs ->
              CloseSteps(t, stk[n].sockets, "t_reset")
         [] th[t].pc = "t_reset" ->
              /\ stk' = [stk EXCEPT ![n].sockets = "none", ![n].mu = "free"]
              /\ th' = [th EXCEPT ![t].pc = after]
              /\ UNCHANGED <<sk, tun>>

\* Stack.Close of the client's stack, called by the application
StackCloseStep ==
    /\ th.stop.pc \in {"idle"} \cup StackClosePcs \cup ClosePcs
    /\ IF th.stop.pc = "idle"
       THEN /\ th' = [th EXCEPT !.stop.pc = "t_stop"]
            /\ UNCHANGED <<sk, stk, tun>>
       ELSE StackCloseSteps("stop", "A", "done")

\* Stack.Close called once more after the first call has returned
StackCloseAgain ==
    /\ th.stop.pc = "done"
    /\ th.stop2.pc \in {"idle"} \cup StackClosePcs \cup ClosePcs
    /\ IF th.stop2.pc = "idle"
       THEN /\ th' = [th EXCEPT !.stop2.pc = "t_stop"]
            /\ UNCHANGED <<sk, stk, tun>>
       ELSE StackCloseSteps("stop2", "A", "done")

\* a packet of some other origin arrives on the client's TUN queue
Inject ==
    /\ tun["A"].injected < MaxInject
    /\ Len(tun["A"].rq) < MaxInFlight
    /\ \E len \in {0, 1} :
         tun' = [tun EXCEPT !["A"].injected = @ + 1,
                            !["A"].rq = Append(@, [flags |-> ACK, seq |-> U32(0, 0),
                                                   ack |-> U32(0, 0), len |-> len])]
    /\ UNCHANGED <<sk, stk, th>>

\* sequence numbers a data packet of the connection may carry: at, after
\* and before the number the client expects, and on both sides of 2^32
SeqSamples ==
    {U32(0, 0), U32(0, 1), U32(Half \div 2, 0), U32(Half - 1, Half - 3),
     U32(Half - 1, Half - 1)}

\* a data packet or a bare ACK with the connection's addresses arrives at
\* the client, in order, out of order or again: handlePacket looks at the
\* addresses only
\* (stack.go 172-181) and Recv takes the sequence number as it comes
Arrive ==
    /\ tun["A"].injected < MaxArrivals
    /\ Len(tun["A"].rq) < MaxInFlight
    /\ \E seq \in SeqSamples, len \in {0, 1} :
         /\ len = 0 => seq = U32(0, 1)
         /\ tun' = [tun EXCEPT !["A"].injected = @ + 1,
                               !["A"].rq = Append(@, [flags |-> ACK, seq |-> seq,
                                                      ack |-> U32(0, 0), len |-> len])]
    /\ UNCHANGED <<sk, stk, th>>

\* the application calls Recv again after a Recv that returned a payload
RecvMore ==
    /\ th.rcv.pc = "ret"
    /\ th.rcv.res = "ok"
    /\ th' = [th EXCEPT !.rcv = [pc |-> "idle", res |-> "none", got |-> U32(0, 0)]]
    /\ UNCHANGED <<sk, stk, tun>>

\* the handshake and a client that receives whatever arrives
NextAck ==
    \/ ConnectStep
    \/ AcceptStep
    \/ \E n \in Nodes : Reader(n)
    \/ Listen
    \/ RecvStep
    \/ RecvMore
    \/ Arrive

\* the handshake with the application's calls on the client socket
NextSock ==
    \/ ConnectStep
    \/ AcceptStep
    \/ \E n \in Nodes : Reader(n)
    \/ Listen
    \/ SendStep
    \/ RecvStep
    \/ SockCloseStep
    \/ Inject

\* the handshake with two goroutines that close the client socket
NextClose ==
    \/ ConnectStep
    \/ AcceptStep
    \/ \E n \in Nodes : Reader(n)
    \/ Listen
    \/ SockCloseStep
    \/ SockCloseStep2

\* the handshake, two goroutines that call Send on the client socket, and
\* Stack.Close of the client's stack, which closes the TUN
NextSends ==
    \/ ConnectStep
    \/ AcceptStep
    \/ \E n \in Nodes : Reader(n)
    \/ Listen
    \/ SendCall1
    \/ SendCall2
    \/ StackCloseStep

\* the handshake, a server that sends more than the client's queue holds,
\* and a Close of the client socket
NextQueue ==
    \/ ConnectStep
    \/ AcceptStep
    \/ Reader("B")
    \/ PacketReader
    \/ Listen
    \/ Flood
    \/ SockCloseStep

\* the handshake with Stack.Close of the client's stack
NextStop ==
    \/ ConnectStep
    \/ AcceptStep
    \/ \E n \in Nodes : Reader(n)
    \/ Listen
    \/ StackCloseStep
    \/ StackCloseAgain

(***************************************************************************)
(* The deadlock watchdog: mtypes.CriticalLogger, src/mtypes/               *)
(* critical_logger.go.  Time is counted in units of the grace period; the  *)
(* monitor goroutine takes a tick, and leaves its sleep, at the instant    *)
(* it is due.  UpdateActivity, Stop and the monitor's check each run       *)
(* under cl.mu and are one step.                                           *)
(***************************************************************************)
\* `3 * time.Second`, lines 103: one unit of the clock
Grace == 1

\* the deadlockTimeout values NewCriticalLogger is called with, in units
Timeouts == 2..4

Period_Whole(deadlockTimeout) == deadlockTimeout

\* line 88: `cl.deadlockTimeout / 2`, a division of integers
Period(deadlockTimeout) == deadlockTimeout \div 2

Overdue_AtTimeout(now, lastActivity, deadlockTimeout) == now - lastActivity >= deadlockTimeout

\* line 97: `time.Since(cl.lastActivity) > cl.deadlockTimeout`
Overdue(now, lastActivity, deadlockTimeout) == now - lastActivity > deadlockTimeout

\* pc: the monitor goroutine ("none" before NewCriticalLogger, "select" in
\* its loop, "sleep" in the grace period, "returned", "exited" once
\* os.Exit has run); ticked: a tick waits in ticker.C; done: ctx is
\* cancelled; tripAt, tripGap: when the test of line 97 succeeded and
\* what time.Since measured; code: the exit code
NoLogger ==
    [pc |-> "none", deadlockTimeout |-> 0, lastActivity |-> 0, now |-> 0,
     ticked |-> FALSE, stopped |-> FALSE, done |-> FALSE,
     tripAt |-> 0, tripGap |-> 0, code |-> 0]

InitWatch == cl = NoLogger

Alive == cl.pc \in {"select", "sleep", "returned"}

\* NewCriticalLogger, lines 30-44
NewCriticalLogger ==
    /\ cl.pc = "none"
    /\ \E deadlockTimeout \in Timeouts :
         cl' = [NoLogger EXCEPT !.pc = "select", !.deadlockTimeout = deadlockTimeout]

\* UpdateActivity, lines 47-51
UpdateActivity ==
    /\ Alive
    /\ cl.lastActivity # cl.now
    /\ cl' = [cl EXCEPT !.lastActivity = cl.now]

\* Stop, lines 112-120
Stop ==
    /\ Alive
    /\ ~cl.stopped
    /\ cl' = [cl EXCEPT !.stopped = TRUE, !.done = TRUE]

\* the clock advances by one unit; the ticker sends a tick every Period
\* (lines 88, 95) unless one still waits in its channel
ClockAdvance ==
    /\ Alive
    /\ cl.now < MaxTime
    /\ ~(cl.pc = "select" /\ cl.ticked)
    /\ ~(cl.pc = "sleep" /\ cl.now >= cl.tripAt + Grace)
    /\ cl' = [cl EXCEPT !.now = @ + 1,
                        !.ticked = @ \/ (cl.now + 1) % Period(cl.deadlockTimeout) = 0]

\* deadlockMonitor, lines 95-107: a tick is taken and the activity checked
MonitorTick ==
    /\ cl.pc = "select"
    /\ cl.ticked
    /\ IF Overdue(cl.now, cl.lastActivity, cl.deadlockTimeout)
       THEN cl' = [cl EXCEPT !.ticked = FALSE, !.pc = "sleep", !.tripAt = cl.now,
                             !.tripGap = cl.now - cl.lastActivity]
       ELSE cl' = [cl EXCEPT !.ticked = FALSE]

\* deadlockMonitor, lines 93-94: the context is cancelled
MonitorDone ==
    /\ cl.pc = "select"
    /\ cl.done
    /\ cl' = [cl EXCEPT !.pc = "returned"]

\* deadlockMonitor, lines 103-104: the sleep is over, os.Exit(1)
MonitorExit ==
    /\ cl.pc = "sleep"
    /\ cl.now >= cl.tripAt + Grace
    /\ cl' = [cl EXCEPT !.pc = "exited", !.code = 1]

NextWatch ==
    \/ NewCriticalLogger
    \/ UpdateActivity
    \/ Stop
    \/ ClockAdvance
    \/ MonitorTick
    \/ MonitorDone
    \/ MonitorExit

(***************************************************************************)
(* conn.FakeTCPBind of the server, src/conn/bind_faketcp.go: Open, the     *)
(* accept loop, the worker of an accepted socket, and Close.               *)
(***************************************************************************)
\* FakeTCPBind.Open, lines 59-132, of a bind whose TUN devices can be made
BindOpen ==
    /\ ~bnd.opened
    /\ bnd.mu = "free"
    /\ stk["B"].mu = "free"
    /\ bnd' = [bnd EXCEPT !.opened = TRUE]
    /\ stk' = [stk EXCEPT !["B"].listening = TRUE]
    /\ th' = [th EXCEPT !.al.pc = "accept"]
    /\ UNCHANGED <<sk, tun>>

\* the cases of the select of Stack.Accept, stack.go 74-79, that are ready
AcceptReady ==
    (IF stk["B"].acceptQueue # <<>> THEN {"sock"} ELSE {})
    \cup (IF stk["B"].stopped THEN {"stop"} ELSE {})

\* FakeTCPBind.acceptLoop, lines 135-161, with Stack.Accept
AcceptLoop ==
    /\ th.al.pc \in {"accept", "store"}
    /\ CASE th.al.pc = "accept" ->
              \E case \in AcceptReady :
                 IF case = "sock"
                 THEN /\ stk' = [stk EXCEPT !["B"].acceptQueue = Tail(@)]
                      /\ th' = [th EXCEPT !.al.pc = "store"]
                      /\ UNCHANGED <<sk, tun, bnd>>
                 ELSE /\ th' = [th EXCEPT !.al.pc = IF bnd.stopChan THEN "exit" ELSE "accept"]
                      /\ UNCHANGED <<sk, stk, tun, bnd>>
         [] th.al.pc = "store" ->
              /\ bnd.mu = "free"
              /\ bnd' = [bnd EXCEPT !.sockets = @ \cup {"s"}]
              /\ th' = [th EXCEPT !.al.pc = "accept", !.hs.pc = "r_state"]
              /\ UNCHANGED <<sk, stk, tun>>

\* FakeTCPBind.handleSocket, lines 164-192, on the accepted socket
HandleSocket ==
    /\ th.hs.pc \in {"r_state", "r_select", "r_ack", "ret", "h_del"} \cup ClosePcs
    /\ CASE th.hs.pc \in {"r_state", "r_select", "r_ack"} ->
              RecvSteps("hs", "s") /\ UNCHANGED bnd
         [] th.hs.pc = "ret" /\ th.hs.res # "ok" ->
              /\ th' = [th EXCEPT !.hs.pc = "k_swap"]
              /\ UNCHANGED <<sk, stk, tun, bnd>>
         [] th.hs.pc = "ret" /\ th.hs.res = "ok" ->
              /\ Len(bnd.recvQueue) < RecvQueueSize \/ bnd.stopChan
              /\ \E case \in (IF Len(bnd.recvQueue) < RecvQueueSize THEN {"queue"} ELSE {})
                             \cup (IF bnd.stopChan THEN {"stop"} ELSE {}) :
                   IF case = "queue"
                   THEN /\ bnd' = [bnd EXCEPT !.recvQueue = Append(@, th.hs.got)]
                        /\ th' = [th EXCEPT !.hs.pc = "r_state"]
                   ELSE /\ th' = [th EXCEPT !.hs.pc = "exit"]
                        /\ UNCHANGED bnd
              /\ UNCHANGED <<sk, stk, tun>>
         [] th.hs.pc \in ClosePcs ->
              CloseSteps("hs", "s", "h_del") /\ UNCHANGED bnd
         [] th.hs.pc = "h_del" ->
              /\ bnd.mu = "free"
              /\ bnd' = [bnd EXCEPT !.sockets = @ \ {"s"}]
              /\ th' = [th EXCEPT !.hs.pc = "exit"]
              /\ UNCHANGED <<sk, stk, tun>>

\* FakeTCPBind.Close, lines 208-239, of an opened bind
BindCloseStep ==
    /\ bnd.opened
    /\ th.bc.pc \in {"idle", "b_stop", "b_wait", "b_lock", "b_reset", "b_done"}
                    \cup ClosePcs \cup StackClosePcs
    /\ CASE th.bc.pc = "idle" ->
              /\ bnd.mu = "free"
              /\ bnd' = [bnd EXCEPT !.closed = TRUE]
              /\ th' = [th EXCEPT !.bc.pc = IF bnd.closed THEN "done" ELSE "b_stop"]
              /\ UNCHANGED <<sk, stk, tun>>
         [] th.bc.pc = "b_stop" ->
              /\ bnd' = [bnd EXCEPT !.stopChan = TRUE]
              /\ th' = [th EXCEPT !.bc.pc = "b_wait"]
              /\ UNCHANGED <<sk, stk, tun>>
         [] th.bc.pc = "b_wait" ->
              /\ th.al.pc = "exit"
              /\ th' = [th EXCEPT !.bc.pc = "b_lock"]
              /\ UNCHANGED <<sk, stk, tun, bnd>>
         [] th.bc.pc = "b_lock" ->
              /\ bnd.mu = "free"
              /\ bnd' = [bnd EXCEPT !.mu = "close"]
              /\ th' = [th EXCEPT !.bc.pc = IF bnd.sockets = {} THEN "b_reset" ELSE "k_swap",
                                  !.bc.stage = "sockets"]
              /\ UNCHANGED <<sk, stk, tun>>
         [] th.bc.pc \in ClosePcs /\ th.bc.stage = "sockets" ->
              CloseSteps("bc", "s", "b_reset") /\ UNCHANGED bnd
         [] th.bc.pc = "b_reset" ->
              /\ bnd' = [bnd EXCEPT !.sockets = {}]
              /\ th' = [th EXCEPT !.bc.pc = "t_stop", !.bc.stage = "stack"]
              /\ UNCHANGED <<sk, stk, tun>>
         [] th.bc.pc \in StackClosePcs \cup ClosePcs /\ th.bc.stage = "stack" ->
              StackCloseSteps("bc", "B", "b_done") /\ UNCHANGED bnd
         [] th.bc.pc = "b_done" ->
              /\ bnd' = [bnd EXCEPT !.mu = "free"]
              /\ th' = [th EXCEPT !.bc.pc = "done"]
              /\ UNCHANGED <<sk, stk, tun>>

\* FakeTCPBind.Send of the client's bind for the server's endpoint, lines
\* 249-283: the bind has no socket for the remote, so Send is in
\* Stack.Connect (the steps of ConnectStep), stores the socket Connect
\* returns and sends one byte on it
ClientSend ==
    /\ th.cs.pc \in {"connect", "store", "send"}
    /\ CASE th.cs.pc = "connect" ->
              /\ th.conn.pc = "ret"
              /\ th' = [th EXCEPT !.cs = IF th.conn.res = "ok"
                                         THEN [pc |-> "store", res |-> "none"]
                                         ELSE [pc |-> "ret", res |-> "connectfail"]]
              /\ UNCHANGED <<sk, stk, tun, bnd>>
         [] th.cs.pc = "store" ->
              /\ bnd' = [bnd EXCEPT !.csockets = @ \cup {"c"}]
              /\ th' = [th EXCEPT !.cs.pc = "send"]
              /\ UNCHANGED <<sk, stk, tun>>
         [] th.cs.pc = "send" ->
              /\ IF sk["c"].state = "Established" /\ ~sk["c"].closed /\ CanWrite("c")
                 THEN /\ tun' = Wire("A", Packet(sk["c"], ACK, 1))
                      /\ sk' = [sk EXCEPT !["c"].seq = SeqPlus(@, 1)]
                      /\ th' = [th EXCEPT !.cs = [pc |-> "ret", res |-> "ok"]]
                 ELSE /\ th' = [th EXCEPT !.cs = [pc |-> "ret", res |-> "fail"]]
                      /\ UNCHANGED <<sk, tun>>
              /\ UNCHANGED <<stk, bnd>>

\* FakeTCPBind.Send of the server's bind for the client's endpoint, whose
\* accepted socket the bind holds, lines 249-283: one byte on that socket
ServerSend ==
    /\ th.sv.pc = "idle"
    /\ "s" \in bnd.sockets
    /\ bnd.mu = "free"
    /\ IF sk["s"].state = "Established" /\ ~sk["s"].closed /\ CanWrite("s")
       THEN /\ tun' = Wire("B", Packet(sk["s"], ACK, 1))
            /\ sk' = [sk EXCEPT !["s"].seq = SeqPlus(@, 1)]
            /\ th' = [th EXCEPT !.sv = [pc |-> "ret", res |-> "ok"]]
       ELSE /\ th' = [th EXCEPT !.sv = [pc |-> "ret", res |-> "fail"]]
            /\ UNCHANGED <<sk, tun>>
    /\ UNCHANGED <<stk, bnd>>

\* a call of the receive function of the bind of node n, makeReceiveFunc,
\* lines 190-205, that returns a packet of the bind's receive queue
ReceiveFunc(n) ==
    /\ ~bnd.stopChan
    /\ IF n = "B"
       THEN /\ bnd.recvQueue # <<>>
            /\ bnd' = [bnd EXCEPT !.recvQueue = Tail(@),
                                  !.yielded = Append(@, Head(bnd.recvQueue))]
       ELSE /\ bnd.crecvQueue # <<>>
            /\ bnd' = [bnd EXCEPT !.crecvQueue = Tail(@),
                                  !.cyielded = Append(@, Head(bnd.crecvQueue))]
    /\ UNCHANGED <<sk, stk, tun, th>>

Receive == \E n \in Nodes : ReceiveFunc(n)

\* two binds: the client's, which connects by its Send, and the server's,
\* which accepts; each sends one payload to the other and both keep
\* calling their receive functions
NextYield ==
    \/ ConnectStep /\ UNCHANGED bnd
    \/ AcceptStep /\ UNCHANGED bnd
    \/ \E n \in Nodes : Reader(n) /\ UNCHANGED bnd
    \/ BindOpen
    \/ AcceptLoop
    \/ HandleSocket
    \/ ClientSend
    \/ ServerSend
    \/ Receive

\* the client connects to the server's bind, which is then closed
NextBind ==
    \/ ConnectStep /\ UNCHANGED bnd
    \/ AcceptStep /\ UNCHANGED bnd
    \/ \E n \in Nodes : Reader(n) /\ UNCHANGED bnd
    \/ BindOpen
    \/ AcceptLoop
    \/ HandleSocket
    \/ BindCloseStep

\* the server's bind on a TUN device of two queues, and a client that sends
NextOrder ==
    \/ ConnectStep /\ UNCHANGED bnd
    \/ AcceptStep /\ UNCHANGED bnd
    \/ \E n \in Nodes : Reader(n) /\ UNCHANGED bnd
    \/ Reader2 /\ UNCHANGED bnd
    \/ BindOpen
    \/ AcceptLoop
    \/ HandleSocket
    \/ SendStep /\ UNCHANGED bnd
    \/ SendMore /\ UNCHANGED bnd

(***************************************************************************)
(* One stack with several connections: Stack.handlePacket, Stack.Connect   *)
(* and unregisterSocket (src/faketcp/stack.go), the sockets' addresses,    *)
(* and FakeTCPBind.acceptLoop and FakeTCPBind.Send (src/conn/              *)
(* bind_faketcp.go).  The stack has one local address and two ports, the   *)
(* one the bind listens on and connects from and another one, and two      *)
(* remote addresses.  A packet is its destination port, its source and its *)
(* flags.  A handshake waits for its packet or gives up; the retries are   *)
(* not counted.  The packet reader's buffer holds the packet read last;    *)
(* reading and handling a packet is one step.                              *)
(***************************************************************************)
Remotes == {"R1", "R2"}
MuxPorts == {"bound", "other"}
MuxPackets == [port : MuxPorts, remote : Remotes, flags : {SYN, ACK, SYN + ACK}]
SockIds == 1..MaxSocks
BindCallers == {"g1", "g2"}

\* the reader's buffer before the first Tun.Read
NoBuf == [port |-> "none", remote |-> "none", flags |-> 0]

NoMuxSock ==
    [made |-> FALSE, port |-> "bound", remote |-> "R1", alias |-> FALSE,
     state |-> "Idle", closed |-> FALSE, pc |-> "none", inc |-> <<>>]

InitMux ==
    mx = [listening |-> FALSE,
          buf |-> NoBuf,
          reads |-> 0,
          socks |-> [i \in SockIds |-> NoMuxSock],
          sockets |-> [t \in MuxPorts \X Remotes |-> 0],
          acceptQueue |-> <<>>,
          bsockets |-> [r \in Remotes |-> 0],
          rlock |-> {},
          snd |-> [g \in BindCallers |-> [pc |-> "idle", remote |-> "R1",
                                      sock |-> 0, res |-> "none"]]]

\* s.remoteAddr as it reads now.  A socket made by handlePacket holds the
\* net.UDPAddr whose IP is pkt.SrcIP (stack.go 163-170, 195), a slice of
\* the buffer packetReader reads every packet into (part_001 100-101,
\* stack.go 126-136); the socket of Stack.Connect holds the caller's address.
RemoteAddr(i) ==
    IF mx.socks[i].alias THEN mx.buf.remote ELSE mx.socks[i].remote

\* newAddrTuple(s.localAddr, s.remoteAddr), stack.go 17-22
Tuple(i) == <<mx.socks[i].port, RemoteAddr(i)>>

\* the socket newSocket returns next
Unmade == {i \in SockIds : ~mx.socks[i].made}
FreshSock == CHOOSE i \in Unmade : \A j \in Unmade : i <= j

\* Stack.Listen, stack.go 59-70
MuxListen ==
    /\ ~mx.listening
    /\ mx' = [mx EXCEPT !.listening = TRUE]

\* one turn of packetReader, stack.go 136-157, with handlePacket, 161-219,
\* and Socket.handleIncoming, part_000 285-299.  No packet arrives for a
\* socket that has MaxQueued packets waiting.
MuxRead ==
    /\ mx.reads < MaxReads
    /\ \E pkt \in MuxPackets :
         LET key == <<pkt.port, pkt.remote>>
             i == mx.sockets[key]
             read == [mx EXCEPT !.buf = pkt, !.reads = @ + 1]
         IN  IF i # 0
             THEN /\ mx.socks[i].closed \/ Len(mx.socks[i].inc) < MaxQueued
                  /\ mx' = IF mx.socks[i].closed THEN read
                           ELSE [read EXCEPT !.socks[i].inc = Append(@, pkt.flags)]
             ELSE IF pkt.flags = SYN /\ mx.listening /\ pkt.port = "bound"
             THEN /\ Unmade # {}
                  /\ mx' = [read EXCEPT
                              !.socks[FreshSock] =
                                  [made |-> TRUE, port |-> pkt.port,
                                   remote |-> pkt.remote, alias |-> TRUE,
                                   state |-> "Idle", closed |-> FALSE,
                                   pc |-> "a_start", inc |-> <<>>],
                              !.sockets[key] = FreshSock]
             ELSE mx' = read

\* Stack.unregisterSocket, stack.go 222-228
unregisterSocket(m, tuple) == [m EXCEPT !.sockets[tuple] = 0]

\* Socket.Close, part_000 302-320
MuxClose(m, i) ==
    IF m.socks[i].closed THEN m
    ELSE unregisterSocket([m EXCEPT !.socks[i].closed = TRUE,
                                    !.socks[i].state = "Closed"], Tuple(i))

\* the goroutine handlePacket starts for the socket i, stack.go 204-216,
\* with Socket.Accept, part_000 146-201
MuxAccept(i) ==
    /\ mx.socks[i].pc \in {"a_start", "a_wait", "a_queue", "a_close"}
    /\ CASE mx.socks[i].pc = "a_start" ->
              mx' = [mx EXCEPT !.socks[i].state = "SynReceived",
                               !.socks[i].pc = "a_wait"]
         [] mx.socks[i].pc = "a_wait" /\ mx.socks[i].inc # <<>> ->
              mx' = IF HasFlag(Head(mx.socks[i].inc), ACK)
                    THEN [mx EXCEPT !.socks[i].inc = Tail(@),
                                    !.socks[i].state = "Established",
                                    !.socks[i].pc = "a_queue"]
                    ELSE [mx EXCEPT !.socks[i].inc = Tail(@)]
         [] mx.socks[i].pc = "a_wait" /\ mx.socks[i].inc = <<>> ->
              mx' = [mx EXCEPT !.socks[i].state = "Closed",
                               !.socks[i].pc = "a_close"]
         [] mx.socks[i].pc = "a_queue" ->
              mx' = [mx EXCEPT !.acceptQueue = Append(@, i),
                               !.socks[i].pc = "accepted"]
         [] mx.socks[i].pc = "a_close" ->
              mx' = [MuxClose(mx, i) EXCEPT !.socks[i].pc = "failed"]

\* FakeTCPBind.acceptLoop, bind_faketcp.go 135-163
MuxAcceptLoop ==
    /\ mx.acceptQueue # <<>>
    /\ mx.rlock = {}
    /\ LET i == Head(mx.acceptQueue)
       IN  mx' = [mx EXCEPT !.acceptQueue = Tail(@),
                            !.bsockets[RemoteAddr(i)] = i]

\* FakeTCPBind.Send called by the goroutine g, bind_faketcp.go 249-283, with
\* Stack.Connect, stack.go 83-119, and Socket.Connect, part_000 86-143.  The
\* caller holds b.mu.RLock() from its first step to its return, but for the
\* store of the new socket, which it makes under b.mu.Lock().
MuxSend(g) ==
    LET c == mx.snd[g]
        r == c.remote
        i == c.sock
    IN  /\ c.pc \in {"idle", "connect", "wait", "store", "send"}
        /\ CASE c.pc = "idle" ->
                  \E to \in Remotes :
                     mx' = [mx EXCEPT !.rlock = @ \cup {g},
                                      !.snd[g].remote = to,
                                      !.snd[g].sock = mx.bsockets[to],
                                      !.snd[g].pc = IF mx.bsockets[to] # 0
                                                    THEN "send" ELSE "connect"]
             [] c.pc = "connect" ->
                  /\ Unmade # {}
                  /\ mx' = [mx EXCEPT
                              !.socks[FreshSock] =
                                  [made |-> TRUE, port |-> "bound", remote |-> r,
                                   alias |-> FALSE, state |-> "SynSent",
                                   closed |-> FALSE, pc |-> "c_wait", inc |-> <<>>],
                              !.sockets[<<"bound", r>>] = FreshSock,
                              !.snd[g].sock = FreshSock,
                              !.snd[g].pc = "wait"]
             [] c.pc = "wait" /\ mx.socks[i].inc # <<>> ->
                  mx' = IF Head(mx.socks[i].inc) = SYN + ACK
                        THEN [mx EXCEPT !.socks[i].inc = Tail(@),
                                        !.socks[i].state = "Established",
                                        !.socks[i].pc = "connected",
                                        !.snd[g].pc = "store"]
                        ELSE [mx EXCEPT !.socks[i].inc = Tail(@)]
             [] c.pc = "wait" /\ mx.socks[i].inc = <<>> ->
                  mx' = [unregisterSocket(mx, <<"bound", r>>) EXCEPT
                            !.socks[i].state = "Closed",
                            !.socks[i].pc = "timeout",
                            !.rlock = @ \ {g},
                            !.snd[g].pc = "ret",
                            !.snd[g].res = "connectfail"]
             [] c.pc = "store" ->
                  /\ mx.rlock \ {g} = {}
                  /\ mx' = [mx EXCEPT !.bsockets[r] = i, !.snd[g].pc = "send"]
             [] c.pc = "send" ->
                  mx' = [mx EXCEPT
                           !.rlock = @ \ {g},
                           !.snd[g].pc = "ret",
                           !.snd[g].res = IF mx.socks[i].state # "Established"
                                          THEN "notestablished"
                                          ELSE IF mx.socks[i].closed THEN "closed"
                                          ELSE "ok"]

MuxSend1 == MuxSend("g1")
MuxSend2 == MuxSend("g2")
MuxAccepts == \E i \in SockIds : MuxAccept(i)

NextMux ==
    \/ MuxListen
    \/ MuxRead
    \/ MuxAccepts
    \/ MuxAcceptLoop
    \/ MuxSend1
    \/ MuxSend2

(***************************************************************************)
(* The read-write locks of the trylist and of the peer.                    *)
(*                                                                         *)
(* endpoint_trylist and Peer each embed a sync.RWMutex.  A call is the     *)
(* sequence of its lock operations and of its accesses to the state the    *)
(* lock is for: the maps and items of the trylist, the endpoint pointers   *)
(* of the peer.  Fields reached through atomics (activeAF, ipv6Failed) are *)
(* not accesses.  RLock waits while a goroutine holds or waits for the     *)
(* write lock; Lock waits while any goroutine holds the lock.              *)
(***************************************************************************)
Goroutines == {"g1", "g2"}
Locks == {"et", "peer"}
LockCalls == {"GetNextTry", "UpdateP2P", "Delete", "SendBuffer", "SetEndpointFromConnURL"}

Op(k, o) == [k |-> k, o |-> o]

StepsOf(call) ==
    CASE call = "GetNextTry" ->
           \* lines 550, 554 (range trymap_super), 559 (range trymap_p2p),
           \* 564 (delete), 573 (lastTry), 575 (firstTry), 577, 551 (deferred)
           <<Op("RLock", "et"), Op("read", "et"), Op("read", "et"),
             Op("write", "et"), Op("write", "et"), Op("write", "et"),
             Op("read", "et"), Op("RUnlock", "et")>>
      [] call = "UpdateP2P" ->
           \* lines 527, 529, 533, 528 (deferred)
           <<Op("Lock", "et"), Op("read", "et"), Op("write", "et"), Op("Unlock", "et")>>
      [] call = "Delete" ->
           \* lines 543, 545, 546, 544 (deferred)
           <<Op("Lock", "et"), Op("write", "et"), Op("write", "et"), Op("Unlock", "et")>>
      [] call = "SendBuffer" ->
           \* with both families installed and the IPv6 send failing: lines
           \* 1006, 1010-1011, 1020, 875 and 904 (tryIPv6Send), 908, 909, 910,
           \* 911, 1007 (deferred)
           <<Op("RLock", "peer"), Op("read", "peer"), Op("read", "peer"),
             Op("read", "peer"), Op("read", "peer"), Op("Lock", "peer"),
             Op("write", "peer"), Op("write", "peer"), Op("Unlock", "peer"),
             Op("RUnlock", "peer")>>
      [] call = "SetEndpointFromConnURL" ->
           \* with an IPv4 address admitted: lines 1300, 1301, 1303, 1362,
           \* 1373, 1374-1377, 1378, 1379, 1389
           <<Op("Lock", "peer"), Op("write", "peer"), Op("Unlock", "peer"),
             Op("read", "peer"),
             Op("Lock", "peer"), Op("read", "peer"), Op("write", "peer"),
             Op("write", "peer"), Op("Unlock", "peer")>>

NoLockCall == [call |-> "none", pc |-> 0]

InitLk ==
    lk = [readers |-> [o \in Locks |-> {}],
          writer |-> [o \in Locks |-> "none"],
          g |-> [g \in Goroutines |-> NoLockCall]]

\* g is inside a call and has not run its last step
Running(g) == lk.g[g].call # "none" /\ lk.g[g].pc <= Len(StepsOf(lk.g[g].call))

\* the step g takes next
Cur(g) == StepsOf(lk.g[g].call)[lk.g[g].pc]

LkStep(g) == [lk.g EXCEPT ![g].pc = @ + 1]

LkCall(g) ==
    /\ lk.g[g].call = "none"
    /\ \E c \in LockCalls : lk' = [lk EXCEPT !.g[g] = [call |-> c, pc |-> 1]]

\* sync.RWMutex: a goroutine that waits in Lock keeps new readers out
LockWaited(o) ==
    \E h \in Goroutines : Running(h) /\ Cur(h) = Op("Lock", o)

LkAcquire(g) ==
    /\ Running(g)
    /\ LET s == Cur(g) IN
       \/ /\ s.k = "RLock"
          /\ lk.writer[s.o] = "none" /\ ~LockWaited(s.o)
          /\ lk' = [lk EXCEPT !.readers[s.o] = @ \cup {g}, !.g = LkStep(g)]
       \/ /\ s.k = "Lock"
          /\ lk.writer[s.o] = "none" /\ lk.readers[s.o] = {}
          /\ lk' = [lk EXCEPT !.writer[s.o] = g, !.g = LkStep(g)]

LkAccess(g) ==
    /\ Running(g)
    /\ Cur(g).k \in {"read", "write"}
    /\ lk' = [lk EXCEPT !.g = LkStep(g)]

LkRelease(g) ==
    /\ Running(g)
    /\ LET s == Cur(g) IN
       \/ /\ s.k = "RUnlock"
          /\ lk' = [lk EXCEPT !.readers[s.o] = @ \ {g}, !.g = LkStep(g)]
       \/ /\ s.k = "Unlock"
          /\ lk' = [lk EXCEPT !.writer[s.o] = "none", !.g = LkStep(g)]

LkReturn(g) ==
    /\ lk.g[g].call # "none" /\ ~Running(g)
    /\ lk' = [lk EXCEPT !.g[g] = NoLockCall]

NextLocks ==
    \/ \E g \in Goroutines : LkCall(g)
    \/ \E g \in Goroutines : LkAcquire(g)
    \/ \E g \in Goroutines : LkAccess(g)
    \/ \E g \in Goroutines : LkRelease(g)
    \/ \E g \in Goroutines : LkReturn(g)

Init ==
    /\ InitPeer /\ InitTry /\ InitObf /\ InitTcp /\ InitWatch /\ InitIP /\ InitMux
    /\ InitLk

\* one configuration, for the specifications that are not about the peer
PeerIdle == cfg = Config(FALSE, TRUE, TRUE, FALSE)
\* one pair of initial sequence numbers, the server's at the top of uint32
RndFixed == rnd = [c |-> U32(0, 7), s |-> U32(Half - 1, Half - 1)]

\* the initial states of each specification: the subsystems it leaves
\* alone start from one configuration
InitSpecPeer == Init /\ RndFixed /\ TryIdle
InitSpecHandshake == Init /\ PeerIdle /\ TryIdle
InitSpecOne == Init /\ PeerIdle /\ RndFixed /\ TryIdle
InitSpecTry == Init /\ PeerIdle /\ RndFixed
\* the client's initial sequence number: small, or the last before 2^32
InitSpecSends == Init /\ PeerIdle /\ TryIdle /\ rnd["s"] = U32(0, 7)

SpecPeer == InitSpecPeer /\ [][NextPeer /\ UNCHANGED <<lkVars, muxVars, tryVars, wdVars, ipVars, obfVars, tcpVars>>]_vars

SpecRoam == InitSpecPeer /\ [][NextRoam /\ UNCHANGED <<lkVars, muxVars, tryVars, wdVars, ipVars, obfVars, tcpVars>>]_vars

SpecSend == InitSpecPeer /\ [][NextSend /\ UNCHANGED <<lkVars, muxVars, tryVars, wdVars, ipVars, obfVars, tcpVars>>]_vars

SpecObf == InitSpecOne /\ [][NextObf /\ UNCHANGED <<lkVars, muxVars, peerVars, tryVars, wdVars, ipVars, tcpVars>>]_vars

SpecDecrypt == InitSpecOne /\ [][NextDecrypt /\ UNCHANGED <<lkVars, muxVars, peerVars, tryVars, wdVars, ipVars, tcpVars>>]_vars

SpecWatch == InitSpecOne /\ [][NextWatch /\ UNCHANGED <<lkVars, muxVars, peerVars, tryVars, ipVars, obfVars, tcpVars>>]_vars

SpecIP == InitSpecOne /\ [][NextIP /\ UNCHANGED <<lkVars, muxVars, peerVars, tryVars, wdVars, obfVars, tcpVars>>]_vars

SpecSock == InitSpecOne /\ [][NextSock /\ UNCHANGED <<lkVars, muxVars, peerVars, tryVars, wdVars, ipVars, obfVars, rnd, bnd>>]_vars

SpecAck == InitSpecOne /\ [][NextAck /\ UNCHANGED <<lkVars, muxVars, peerVars, tryVars, wdVars, ipVars, obfVars, rnd, bnd>>]_vars

SpecTry == InitSpecTry /\ [][NextTry /\ UNCHANGED <<lkVars, muxVars, peerVars, wdVars, ipVars, obfVars, tcpVars>>]_vars

SpecClose == InitSpecOne /\ [][NextClose /\ UNCHANGED <<lkVars, muxVars, peerVars, tryVars, wdVars, ipVars, obfVars, rnd, bnd>>]_vars

SpecSends == InitSpecSends /\ [][NextSends /\ UNCHANGED <<lkVars, muxVars, peerVars, tryVars, wdVars, ipVars, obfVars, rnd, bnd>>]_vars

SpecQueue == InitSpecOne /\ [][NextQueue /\ UNCHANGED <<lkVars, muxVars, peerVars, tryVars, wdVars, ipVars, obfVars, rnd, bnd>>]_vars

SpecMux == InitSpecOne /\ [][NextMux /\ UNCHANGED <<lkVars, peerVars, tryVars, wdVars, ipVars, obfVars, tcpVars>>]_vars

SpecLocks == InitSpecOne /\ [][NextLocks /\ UNCHANGED <<muxVars, peerVars, tryVars, wdVars, ipVars, obfVars, tcpVars>>]_vars

SpecOrder == InitSpecOne /\ [][NextOrder /\ UNCHANGED <<lkVars, muxVars, peerVars, tryVars, wdVars, ipVars, obfVars, rnd>>]_vars

\* every goroutine of the bind that can take a step eventually takes one
SpecBind ==
    /\ InitSpecOne
    /\ [][NextBind /\ UNCHANGED <<lkVars, muxVars, peerVars, tryVars, wdVars, ipVars, obfVars, rnd>>]_vars
    /\ WF_vars(ConnectStep /\ UNCHANGED <<lkVars, muxVars, peerVars, tryVars, wdVars, ipVars, obfVars, rnd, bnd>>)
    /\ WF_vars(AcceptStep /\ UNCHANGED <<lkVars, muxVars, peerVars, tryVars, wdVars, ipVars, obfVars, rnd, bnd>>)
    /\ \A n \in Nodes : WF_vars(Reader(n) /\ UNCHANGED <<lkVars, muxVars, peerVars, tryVars, wdVars, ipVars, obfVars, rnd, bnd>>)
    /\ WF_vars(BindOpen /\ UNCHANGED <<lkVars, muxVars, peerVars, tryVars, wdVars, ipVars, obfVars, rnd>>)
    /\ WF_vars(AcceptLoop /\ UNCHANGED <<lkVars, muxVars, peerVars, tryVars, wdVars, ipVars, obfVars, rnd>>)
    /\ WF_vars(HandleSocket /\ UNCHANGED <<lkVars, muxVars, peerVars, tryVars, wdVars, ipVars, obfVars, rnd>>)
    /\ WF_vars(BindCloseStep /\ UNCHANGED <<lkVars, muxVars, peerVars, tryVars, wdVars, ipVars, obfVars, rnd>>)

\* every goroutine that can take a step eventually takes one, and the
\* receive functions are called again and again
SpecYield ==
    /\ InitSpecOne
    /\ [][NextYield /\ UNCHANGED <<lkVars, muxVars, peerVars, tryVars, wdVars, ipVars, obfVars, rnd>>]_vars
    /\ WF_vars(ConnectStep /\ UNCHANGED <<lkVars, muxVars, peerVars, tryVars, wdVars, ipVars, obfVars, rnd, bnd>>)
    /\ WF_vars(AcceptStep /\ UNCHANGED <<lkVars, muxVars, peerVars, tryVars, wdVars, ipVars, obfVars, rnd, bnd>>)
    /\ \A n \in Nodes : WF_vars(Reader(n) /\ UNCHANGED <<lkVars, muxVars, peerVars, tryVars, wdVars, ipVars, obfVars, rnd, bnd>>)
    /\ WF_vars(BindOpen /\ UNCHANGED <<lkVars, muxVars, peerVars, tryVars, wdVars, ipVars, obfVars, rnd>>)
    /\ WF_vars(AcceptLoop /\ UNCHANGED <<lkVars, muxVars, peerVars, tryVars, wdVars, ipVars, obfVars, rnd>>)
    /\ WF_vars(HandleSocket /\ UNCHANGED <<lkVars, muxVars, peerVars, tryVars, wdVars, ipVars, obfVars, rnd>>)
    /\ WF_vars(ClientSend /\ UNCHANGED <<lkVars, muxVars, peerVars, tryVars, wdVars, ipVars, obfVars, rnd>>)
    /\ WF_vars(ServerSend /\ UNCHANGED <<lkVars, muxVars, peerVars, tryVars, wdVars, ipVars, obfVars, rnd>>)
    /\ WF_vars(Receive /\ UNCHANGED <<lkVars, muxVars, peerVars, tryVars, wdVars, ipVars, obfVars, rnd>>)

\* every goroutine that can take a step eventually takes one
SpecStop ==
    /\ InitSpecOne
    /\ [][NextStop /\ UNCHANGED <<lkVars, muxVars, peerVars, tryVars, wdVars, ipVars, obfVars, rnd, bnd>>]_vars
    /\ WF_vars(ConnectStep /\ UNCHANGED <<lkVars, muxVars, peerVars, tryVars, wdVars, ipVars, obfVars, rnd, bnd>>)
    /\ WF_vars(AcceptStep /\ UNCHANGED <<lkVars, muxVars, peerVars, tryVars, wdVars, ipVars, obfVars, rnd, bnd>>)
    /\ \A n \in Nodes : WF_vars(Reader(n) /\ UNCHANGED <<lkVars, muxVars, peerVars, tryVars, wdVars, ipVars, obfVars, rnd, bnd>>)
    /\ WF_vars(Listen /\ UNCHANGED <<lkVars, muxVars, peerVars, tryVars, wdVars, ipVars, obfVars, rnd, bnd>>)
    /\ WF_vars(StackCloseStep /\ UNCHANGED <<lkVars, muxVars, peerVars, tryVars, wdVars, ipVars, obfVars, rnd, bnd>>)
    /\ WF_vars(StackCloseAgain /\ UNCHANGED <<lkVars, muxVars, peerVars, tryVars, wdVars, ipVars, obfVars, rnd, bnd>>)

\* the handshake alone; every goroutine that can take a step eventually does
SpecHandshake ==
    /\ InitSpecHandshake
    /\ [][NextHandshake /\ UNCHANGED <<lkVars, muxVars, peerVars, tryVars, wdVars, ipVars, obfVars, rnd, bnd>>]_vars
    /\ WF_vars(ConnectStep /\ UNCHANGED <<lkVars, muxVars, peerVars, tryVars, wdVars, ipVars, obfVars, rnd, bnd>>)
    /\ WF_vars(AcceptStep /\ UNCHANGED <<lkVars, muxVars, peerVars, tryVars, wdVars, ipVars, obfVars, rnd, bnd>>)
    /\ \A n \in Nodes : WF_vars(Reader(n) /\ UNCHANGED <<lkVars, muxVars, peerVars, tryVars, wdVars, ipVars, obfVars, rnd, bnd>>)
    /\ WF_vars(Listen /\ UNCHANGED <<lkVars, muxVars, peerVars, tryVars, wdVars, ipVars, obfVars, rnd, bnd>>)

(***************************************************************************)
(* Properties of the peer send engine and of endpoint admission.           *)
(***************************************************************************)
\* the transport sends of a call that succeeded
OkSends(t) == {i \in 1..Len(sb[t].log) : sb[t].log[i][2]}

\* C1 as stated needs the call to go on after the IPv6 failure: a SendBuffer
\* call that has failed over from IPv6 and is kept only by its own read lock
\* can take its next step (and so reach the IPv4 send and return).
C1_FailoverProceeds ==
    \A t \in Senders :
        (sb[t].pc = "v6lock" /\ peerReaders = {t}) => ENABLED SBTry(t)

\* C1: the call is at the failover with the IPv4 endpoint standing by.
C1_AtFailover ==
    \E t \in Senders :
        /\ sb[t].pc = "v6lock"
        /\ sb[t].log = <<<<"v6", FALSE>>>>
        /\ ep.endpointIPv4 # NilEp
        /\ activeAF = 4
        /\ failed.v6

\* C2 (amended): a SendBuffer call on a device that is not closed returns nil
\* exactly when one transport send succeeded, and no call has two successful
\* sends; on a closed device it returns nil without sending.
C2_NilIffOneSend ==
    \A t \in Senders :
        sb[t].pc = "ret" =>
            /\ Cardinality(OkSends(t)) <= 1
            /\ ~sb[t].closedEntry => (sb[t].res = "ok" <=> Cardinality(OkSends(t)) = 1)
            /\ sb[t].closedEntry => (sb[t].res = "ok" /\ sb[t].log = <<>>)

\* C2: a call returns nil after a failed and then a successful send.
C2_FallbackSent ==
    \E t \in Senders :
        /\ sb[t].pc = "ret"
        /\ sb[t].res = "ok"
        /\ Len(sb[t].log) >= 2
        /\ Cardinality(OkSends(t)) = 1

\* C2 as stated: for every device state, SendBuffer returns nil exactly when
\* one transport send succeeded.
C2_AsStated ==
    \A t \in Senders :
        sb[t].pc = "ret" => (sb[t].res = "ok" <=> Cardinality(OkSends(t)) = 1)

EpSlots == {"endpoint", "faketcpEndpoint", "endpointIPv4", "endpointIPv6",
            "faketcpEndpointIPv4", "faketcpEndpointIPv6"}

\* C3: with AllowPrivateIP=false, every endpoint a step of
\* SetEndpointFromConnURL writes to a slot of the peer has a non-private IP.
C3_NoPrivateInstalled ==
    [][(~cfg.allowPrivate /\ cu' # cu) =>
          \A f \in EpSlots :
              (ep'[f] # ep[f] /\ ep'[f] # NilEp) => ~IsPrivateIP(ep'[f].ip)]_vars

\* C3: a call that resolved a private IPv4 and a public IPv6 address has
\* installed the IPv6 endpoint only.
C3_PrivateSkipped ==
    /\ ~cfg.allowPrivate
    /\ cu.pc = "ret" /\ cu.res = "ok"
    /\ cu.v4 = Priv4 /\ cu.v6 = Pub6
    /\ ep.endpointIPv4 = NilEp
    /\ ep.endpointIPv6 = UdpEp(Pub6)
    /\ ep.endpoint = UdpEp(Pub6)

\* C4 as stated: a SetEndpointFromConnURL call none of whose resolved
\* addresses was admitted fails with the no-valid-endpoint error.
C4_NoSurvivorFails ==
    (cu.pc = "ret" /\ cu.res # "lookup_err" /\ cu.admitted = 0) => cu.res = "novalid"

\* C4: a call with no admitted address returns nil on a peer that holds an
\* endpoint of an earlier call.
C4_StaleAccepted ==
    /\ cu.pc = "ret" /\ cu.res = "ok" /\ cu.admitted = 0
    /\ cu.v4 = Priv4 /\ cu.static
    /\ staticConn
    /\ ep.endpointIPv4 = UdpEp(Pub4)

\* C5 (amended): while StaticConn is true, SetEndpointFromPacket adopts the
\* packet's source as the peer's endpoint but neither changes the peer's
\* entry of the configuration nor starts a save of it.
C5_StaticNotPersisted ==
    [][(rm.pc = "lock" /\ rm'.pc = "ret" /\ staticConn) =>
          /\ cfgPeer' = cfgPeer
          /\ saves' = saves
          /\ (rm'.res = "adopted" => ep'.endpoint = rm.e)]_vars

\* C5: a roaming update was adopted on a peer with StaticConn=true, and it
\* replaced the endpoint the URL had installed.
C5_StaticRoamed ==
    /\ rm.pc = "ret" /\ rm.res = "adopted" /\ rm.sawStatic
    /\ staticConn
    /\ ep.endpoint = rm.e
    /\ ep.endpointIPv4 = UdpEp(Pub4)
    /\ ~cfgPeer.present

\* C5 as stated: once StaticConn is true, no SetEndpointFromPacket call
\* changes the peer's endpoint.
C5_AsStated ==
    [][(staticConn /\ rm' # rm) => ep'.endpoint = ep.endpoint]_vars


\* C17: on the single-endpoint path a SendBuffer call that finds a UDP
\* endpoint attempts UDP, also after an earlier UDP failure has marked the
\* peer: when the call reaches its pseudo-TCP leg, UDP has been tried.
C17_UdpAttemptedAgain ==
    \A t \in Senders :
        (/\ sb[t].pc = "try"
         /\ sb[t].plan = <<"lftcp">>
         /\ ep.endpoint # NilEp)
        => sb[t].log # <<>>

\* a call made with the mark set went out over pseudo-TCP without a UDP
\* attempt, and the mark is still set when it returns
C17_UdpNeverRetried ==
    \E t \in Senders :
        /\ sb[t].pc = "ret"
        /\ ~DualStackSend
        /\ ep.endpoint # NilEp
        /\ failed.udp
        /\ sb[t].log = <<<<"ftcp", TRUE>>>>

\* C18: on the dual-stack path with activeAF = 4, an IPv6 send that
\* succeeds after the IPv4 attempt switches activeAF back to 6.
C18_V6SuccessSwitchesBack ==
    [][\A t \in Senders :
         (/\ sb[t].pc = "try"
          /\ sb[t].plan = <<"v6", "ftcp">>
          /\ activeAF = 4
          /\ sb'[t].sent)
         => activeAF' = 6]_vars

\* the IPv4 attempt failed, the IPv6 probe was sent, and the call returns
\* with activeAF still 4
C18_ProbeSentStillV4 ==
    \E t \in Senders :
        /\ sb[t].pc = "ret"
        /\ sb[t].log = <<<<"v4", FALSE>>, <<"v6", TRUE>>>>
        /\ ~failed.v6
        /\ activeAF = 4

\* a step in which call u writes its packet although call t, invoked after
\* u, has already written its own
Overtaken(t, u) ==
    /\ u \in sb[t].after
    /\ sb[t].sent
    /\ ~sb[u].sent
    /\ sb'[u].sent

\* C19: SendBuffer calls on one peer are serialised: no two calls are at
\* their transport selection and write at the same time, and no call
\* writes its packet after a call that was invoked later has written.
C19_WrittenInCallOrder ==
    /\ [](Cardinality({t \in Callers : sb[t].pc \in {"try", "v6lock"}}) <= 1)
    /\ [][\A t, u \in Callers : ~Overtaken(t, u)]_vars

\* two calls hold the peer read lock together, and the one invoked second
\* has written its packet while the first has not
C19_SecondCallWroteFirst ==
    \E t, u \in Callers :
        /\ {t, u} \subseteq peerReaders
        /\ u \in sb[t].after
        /\ sb[t].sent
        /\ sb[u].pc = "try"
        /\ ~sb[u].sent

(***************************************************************************)
(* Properties of the endpoint trylist.                                     *)
(***************************************************************************)
TryKeys == DOMAIN et.trymap_super \cup DOMAIN et.trymap_p2p
           \cup DOMAIN et.trymap_super_v4 \cup DOMAIN et.trymap_super_v6

\* C14: when GetNextTry has returned a URL that is not empty, the URL is a
\* key of one of the maps of the trylist.
C14_ReturnedUrlPresent ==
    (et.last.op = "GetNextTry" /\ et.last.url # "") => et.last.url \in TryKeys

\* C14: GetNextTry returned the URL of the aged item it deleted.
C14_AgedItemReturned ==
    /\ et.last.op = "GetNextTry"
    /\ et.last.url = "h1" /\ ~et.last.fast
    /\ "h1" \notin TryKeys

\* the calls so far are UpdateSuper({"h1"}, 6) on the new dual-stack trylist,
\* with h1 resolving to both families, and then n times GetNextTry
AfterDualUpdate(n) ==
    /\ et.dualStack /\ et.dns["h1"] = "both"
    /\ et.super = [op |-> "UpdateSuper", urls |-> {"h1"}, af |-> 6,
                   fast |-> FALSE, url |-> ""]
    /\ et.onlyTries /\ ~et.repeat
    /\ et.calls = 1 + n
    /\ et.last.op = "GetNextTry"

\* C15: after that UpdateSuper the first GetNextTry returns the IPv6 address
\* and the second one the IPv4 address.
C15_PreferredFamilyFirst ==
    /\ AfterDualUpdate(1) => et.last.url = V6Of("h1")
    /\ AfterDualUpdate(2) => et.last.url = V4Of("h1")

\* C15: both addresses are in the per-family maps, and the first GetNextTry
\* returned no URL.
C15_NothingToTry ==
    /\ AfterDualUpdate(1)
    /\ V6Of("h1") \in DOMAIN et.trymap_super_v6
    /\ V4Of("h1") \in DOMAIN et.trymap_super_v4
    /\ et.last.url = ""

\* the keys a URL can have in the supernode maps
KeysOf(u) == {u, V4Of(u), V6Of(u)}
SuperKeys == DOMAIN et.trymap_super \cup DOMAIN et.trymap_super_v4
             \cup DOMAIN et.trymap_super_v6

\* the supernode maps hold the URLs of urls that resolve, under addresses
\* they resolve to, and nothing else
ExactlyResolvable(urls) ==
    /\ SuperKeys \subseteq UNION {KeysOf(u) : u \in urls}
    /\ \A u \in urls :
          /\ et.dns[u] # "fail" <=> KeysOf(u) \cap SuperKeys # {}
          /\ V4Of(u) \in SuperKeys => et.dns[u] \in {"both", "only4"}
          /\ V6Of(u) \in SuperKeys => et.dns[u] \in {"both", "only6"}

\* C16: an UpdateSuper with the arguments of the UpdateSuper before it, with
\* only GetNextTry called in between, leaves every item of the supernode
\* maps as it was, and every UpdateSuper leaves in the supernode maps
\* exactly what its URLs resolve to.
C16_SecondUpdateKeepsBackoff ==
    [][(et.calls' = et.calls + 1 /\ et.last.op' = "UpdateSuper") =>
          /\ ExactlyResolvable(et.last.urls)'
          /\ et.repeat' =>
                /\ et.trymap_super' = et.trymap_super
                /\ et.trymap_super_v4' = et.trymap_super_v4
                /\ et.trymap_super_v6' = et.trymap_super_v6]_vars

\* C16: the repeated UpdateSuper found an item that GetNextTry had tried.
C16_TriedItemCarried ==
    /\ et.last.op = "UpdateSuper" /\ et.repeat
    /\ \E k \in DOMAIN et.trymap_super :
          /\ et.trymap_super[k].firstTry > ZeroTime
          /\ et.trymap_super[k].lastTry >= StartTime
    /\ DOMAIN et.trymap_super_v6 # {}

(***************************************************************************)
(* Properties of the obfuscator.                                           *)
(***************************************************************************)
\* C6 (amended): for an enabled obfuscator and a packet P of at least 16
\* bytes, Encrypt fails exactly when P is a control packet longer than
\* maxControlPacketSize; whenever Encrypt succeeds, with any padding length
\* and nonce it may choose, Decrypt of its output returns P without error.
C6_RoundTripWhenEncrypted ==
    /\ (obf.pc = "encrypted" /\ obf.h.enabled /\ Len(obf.P) >= AesBlockSize) =>
          (obf.enc.err <=> (/\ IsControlPacket(obf.P[1])
                            /\ Len(obf.P) > obf.h.maxControlPacketSize))
    /\ obf.pc = "decrypted" => (~obf.dec.err /\ obf.dec.out = obf.P)

\* C6: a control packet was padded with two bytes or more, sealed and then
\* decrypted to itself.
C6_PaddedControlRoundTrip ==
    /\ obf.pc = "decrypted"
    /\ obf.h.enabled
    /\ IsControlPacket(obf.P[1])
    /\ Len(obf.P) > AesBlockSize
    /\ Len(obf.enc.out) >= Len(obf.P) + 2 + 2 + Overhead + NonceSizeX
    /\ obf.dec = Ok(obf.P)

\* C6 as stated: for an enabled obfuscator and every packet P of at least
\* 16 bytes, Encrypt succeeds and Decrypt of its output returns P.
C6_AsStated ==
    (obf.pc \in {"encrypted", "decrypted"} /\ obf.h.enabled /\ Len(obf.P) >= AesBlockSize) =>
        /\ ~obf.enc.err
        /\ obf.pc = "decrypted" => obf.dec = Ok(obf.P)

\* C22: Encrypt of a control packet P with 16 <= len(P) <=
\* maxControlPacketSize succeeds, and its output is len(P) + pad + 2 + 16 +
\* 24 bytes long with 1 <= pad <= maxControlPacketSize - len(P), pad = 0
\* only when that headroom is 0; so the output is longer than P, at least
\* 58 bytes and at most maxPacketSize bytes long.
C22_ControlOutputLength ==
    (/\ obf.pc \in {"encrypted", "decrypted"}
     /\ obf.kind = "valid"
     /\ obf.h.enabled
     /\ Len(obf.P) >= AesBlockSize
     /\ IsControlPacket(obf.P[1])
     /\ Len(obf.P) <= obf.h.maxControlPacketSize) =>
        LET headroom == obf.h.maxControlPacketSize - Len(obf.P)
            pad == Len(obf.enc.out) - Len(obf.P) - 2 - Overhead - NonceSizeX
        IN  /\ ~obf.enc.err
            /\ IF headroom = 0 THEN pad = 0 ELSE 1 <= pad /\ pad <= headroom
            /\ Len(obf.enc.out) > Len(obf.P)
            /\ Len(obf.enc.out) >= AesBlockSize + 2 + Overhead + NonceSizeX
            /\ Len(obf.enc.out) <= obf.h.maxPacketSize

\* a control packet was encrypted with the least padding its headroom allows
C22_OneByteOfPadding ==
    /\ obf.pc = "encrypted"
    /\ obf.kind = "valid"
    /\ obf.h.enabled
    /\ IsControlPacket(obf.P[1])
    /\ Len(obf.P) = AesBlockSize
    /\ ~obf.enc.err
    /\ Len(obf.enc.out) = AesBlockSize + 1 + 2 + Overhead + NonceSizeX

\* C23 (amended): the encrypted length of a control packet on which Encrypt
\* succeeds is at least len(P) + 2 + 16 + 24 and at most
\* maxControlPacketSize + 2 + 16 + 24, which is maxPacketSize.
C23_WithinPacketSize ==
    (/\ obf.pc \in {"encrypted", "decrypted"}
     /\ obf.kind = "valid"
     /\ obf.h.enabled
     /\ Len(obf.P) >= AesBlockSize
     /\ IsControlPacket(obf.P[1])
     /\ ~obf.enc.err) =>
        /\ Len(obf.enc.out) >= Len(obf.P) + 2 + Overhead + NonceSizeX
        /\ Len(obf.enc.out) <= obf.h.maxControlPacketSize + 2 + Overhead + NonceSizeX
        /\ obf.h.maxControlPacketSize + 2 + Overhead + NonceSizeX = obf.h.maxPacketSize

\* a control packet was padded up to the whole headroom
C23_PaddedToTheLimit ==
    /\ obf.pc = "encrypted"
    /\ obf.kind = "valid"
    /\ obf.h.enabled
    /\ IsControlPacket(obf.P[1])
    /\ Len(obf.P) = AesBlockSize + 1
    /\ ~obf.enc.err
    /\ Len(obf.enc.out) = obf.h.maxPacketSize

\* C23 as stated: the encrypted length of a control packet on which Encrypt
\* succeeds is at most maxControlPacketSize + 16 + 24.
C23_AsStated ==
    (/\ obf.pc \in {"encrypted", "decrypted"}
     /\ obf.kind = "valid"
     /\ obf.h.enabled
     /\ Len(obf.P) >= AesBlockSize
     /\ IsControlPacket(obf.P[1])
     /\ ~obf.enc.err) =>
        /\ Len(obf.enc.out) >= Len(obf.P) + 2 + Overhead + NonceSizeX
        /\ Len(obf.enc.out) <= obf.h.maxControlPacketSize + Overhead + NonceSizeX

\* C24: Encrypt of a control packet of exactly maxControlPacketSize bytes
\* succeeds with no padding, and Encrypt of a longer control packet fails
\* and returns no packet.
C24_SizeBoundary ==
    (/\ obf.pc \in {"encrypted", "decrypted"}
     /\ obf.kind = "valid"
     /\ obf.h.enabled
     /\ Len(obf.P) >= AesBlockSize
     /\ IsControlPacket(obf.P[1])) =>
        /\ Len(obf.P) = obf.h.maxControlPacketSize =>
              /\ ~obf.enc.err
              /\ Len(obf.enc.out) = Len(obf.P) + 2 + Overhead + NonceSizeX
        /\ Len(obf.P) > obf.h.maxControlPacketSize => obf.enc = Err

\* a control packet of exactly maxControlPacketSize bytes was encrypted
C24_AtTheLimit ==
    /\ obf.pc = "encrypted"
    /\ obf.kind = "valid"
    /\ obf.h.enabled
    /\ IsControlPacket(obf.P[1])
    /\ Len(obf.P) = obf.h.maxControlPacketSize
    /\ ~obf.enc.err

\* C25: Decrypt never slices out of range and returns a packet or an
\* error; on a control ciphertext with its last nonce byte removed, cut
\* below 58 bytes, failing authentication, or carrying a length field
\* beyond the padded body it returns an error and no packet.
C25_DecryptTotal ==
    obf.pc = "decrypted" =>
        /\ ~obf.panic
        /\ obf.dec.err => obf.dec = Err
        /\ obf.kind \in {"nonce-1", "short", "cut", "tampered", "badlen"} => obf.dec = Err

\* Decrypt has refused a ciphertext that lost its last nonce byte and is
\* still as long as the shortest control ciphertext
C25_TruncatedRefused ==
    /\ obf.pc = "decrypted"
    /\ obf.kind = "nonce-1"
    /\ Len(obf.enc.out) = AesBlockSize + 2 + Overhead + NonceSizeX
    /\ obf.dec = Err
    /\ ~obf.panic

\* C26: on a packet that is not a control packet of at least 16 bytes,
\* Encrypt and Decrypt keep the length and every byte from offset 16 on;
\* with the handler disabled or a packet below 16 bytes the output equals
\* the input.
C26_ZeroOverhead ==
    LET Tail16(q) == SubSeq(q, AesBlockSize + 1, Len(q))
        Same(res, in) ==
            /\ ~res.err
            /\ Len(res.out) = Len(in)
            /\ Tail16(res.out) = Tail16(in)
            /\ (~obf.h.enabled \/ Len(in) < AesBlockSize) => res.out = in
    IN  (/\ obf.pc \in {"encrypted", "decrypted"}
         /\ obf.kind = "valid"
         /\ ~(obf.h.enabled /\ Len(obf.P) >= AesBlockSize /\ IsControlPacket(obf.P[1]))) =>
            /\ Same(obf.enc, obf.P)
            /\ obf.pc = "decrypted" => Same(obf.dec, obf.enc.out)

\* a data packet longer than one block went through an enabled handler
\* and its first block changed on the way
C26_DataPacketTailKept ==
    /\ obf.pc = "decrypted"
    /\ obf.kind = "valid"
    /\ obf.h.enabled
    /\ ~IsControlPacket(obf.P[1])
    /\ Len(obf.P) > AesBlockSize
    /\ SubSeq(obf.enc.out, 1, AesBlockSize) # SubSeq(obf.P, 1, AesBlockSize)
    /\ obf.dec = Ok(obf.P)


(***************************************************************************)
(* Properties of the pseudo-TCP socket and stack.                          *)
(***************************************************************************)
\* Connect and Accept have returned success, both sockets are Established
\* and the sequence numbers are the initial ones plus one, modulo 2^32
Succ32(v) ==
    IF v[2] < Half - 1 THEN <<v[1], v[2] + 1>>
    ELSE IF v[1] < Half - 1 THEN <<v[1] + 1, 0>>
    ELSE <<0, 0>>

HandshakeDone ==
    /\ th.conn.pc = "ret" /\ th.conn.res = "ok"
    /\ th.acc.pc \in {"a_queue", "done"} /\ th.acc.res = "ok"
    /\ sk["c"].state = "Established" /\ sk["s"].state = "Established"
    /\ sk["c"].seq = Succ32(sk["c"].isn)
    /\ sk["s"].ack = Succ32(sk["c"].isn)
    /\ sk["s"].seq = Succ32(sk["s"].isn)
    /\ sk["c"].ack = Succ32(sk["s"].isn)

\* C7: once the listening server has taken the client's SYN, the handshake
\* over a tunnel that delivers every packet ends with Connect and Accept
\* returning success, both sockets Established, client seq = its initial seq
\* + 1 = server ack and server seq = its initial seq + 1 = client ack, all
\* modulo 2^32, and it stays so.
C7_HandshakeCompletes == (th.acc.pc # "none") ~> []HandshakeDone

\* C7: the handshake is complete and both sequence numbers wrapped around.
C7_HandshakeWrapped ==
    /\ HandshakeDone
    /\ sk["c"].isn = U32(Half - 1, Half - 1) /\ sk["c"].seq = U32(0, 0)
    /\ sk["s"].isn = U32(Half - 1, Half - 1) /\ sk["c"].ack = U32(0, 0)
    /\ stk["B"].acceptQueue = <<"s">>

\* C8: once the client socket has reached Closed (its Close() has returned,
\* or the retries of its Connect were exhausted), no Send and no Recv on it
\* returns success.
C8_NoSuccessAfterClosed ==
    [][ClosedReached =>
         /\ ~(th.snd.pc # "ret" /\ th'.snd.pc = "ret" /\ th'.snd.res = "ok")
         /\ ~(th.rcv.pc # "ret" /\ th'.rcv.pc = "ret" /\ th'.rcv.res = "ok")]_vars

\* C8: Close() has returned and the Connect in flight has since stored
\* Established over Closed.
C8_ClosedThenEstablished ==
    /\ th.cls.pc = "done"
    /\ sk["c"].closed
    /\ sk["c"].state = "Established"

\* C9: a Connect whose socket was never sent a SYN|ACK, and was not closed
\* by the application, returns the timeout error after exactly RetryCount
\* attempts that took RetryCount * ConnTimeout together, with the socket
\* Closed.
C9_TimeoutAfterAllAttempts ==
    (th.conn.pc = "ret" /\ th.acc.pc = "none" /\ th.cls.pc = "idle") =>
        /\ th.conn.res = "timeout"
        /\ th.conn.i = RetryCount
        /\ th.conn.elapsed = RetryCount * ConnTimeout
        /\ sk["c"].state = "Closed"

\* C9: Connect reported the timeout although a packet that was no SYN|ACK
\* ended one of its attempts early.
C9_StrayPacketEndsAttempt ==
    /\ th.conn.pc = "ret" /\ th.conn.res = "timeout"
    /\ th.acc.pc = "none" /\ th.cls.pc = "idle"
    /\ th.conn.i = RetryCount
    /\ th.conn.elapsed < RetryCount * ConnTimeout

\* C10: a Stack.Close that was called returns, and then the TUN queue is
\* closed, the packet reader has exited, the socket that was registered is
\* Closed and the socket map is empty.
C10_StackCloseTerminates ==
    (th.stop.pc # "idle") ~>
        /\ th.stop.pc = "done"
        /\ tun["A"].closed
        /\ th.rdA.pc = "exit"
        /\ stk["A"].sockets = "none"
        /\ sk["c"].exists => sk["c"].state = "Closed"

\* C10: Stack.Close holds the stack's lock and waits for it in
\* unregisterSocket, called by the Close of a registered socket.
C10_SelfDeadlock ==
    /\ th.stop.pc = "k_unreg"
    /\ stk["A"].mu = "stop"
    /\ stk["A"].sockets = "c"
    /\ ~ENABLED StackCloseStep

\* C13: of the Close calls on one socket exactly one performs the effects:
\* close(s.closeChan) is executed at most once on every socket, and when
\* both Close calls of the application have returned it was executed once,
\* the closed flag is set, the channel is closed and the socket is out of
\* the stack's map.
C13_ExactlyOneCloses ==
    /\ \A x \in {"c", "s"} : sk[x].closes <= 1
    /\ \A x \in {"c", "s"} : sk[x].closes = 1 => sk[x].closed /\ sk[x].closeChan
    /\ (th.cls.pc = "done" /\ th.cls2.pc = "done") =>
           /\ sk["c"].closes = 1
           /\ stk["A"].sockets = "none"

\* C13: one Close call has returned nil at once while the other, which won
\* the swap, is still unregistering the socket.
C13_LoserReturnedFirst ==
    /\ th.cls.pc = "done"
    /\ th.cls2.pc = "k_unreg"
    /\ sk["c"].closes = 1 /\ sk["c"].state = "Closed"

\* C12: a Stack.Close called on the stack that a first Stack.Close has
\* closed returns normally: it does not end in a panic.
C12_SecondCloseReturns == th.stop2.pc # "panic"

\* C12: the first Stack.Close returned with the stack closed and empty, and
\* the second one panicked at close(s.stopChan).
C12_SecondClosePanics ==
    /\ th.stop.pc = "done" /\ th.stop2.pc = "panic"
    /\ stk["A"].stopped /\ tun["A"].closed /\ th.rdA.pc = "exit"
    /\ stk["A"].sockets = "none" /\ stk["A"].mu = "free"

(***************************************************************************)
(* Properties of the pseudo-TCP bind.                                      *)
(***************************************************************************)
\* C11: a Close of the opened bind that was called returns, with the accept
\* loop exited, the sockets of the bind closed and the stack stopped.
C11_BindCloseTerminates ==
    (th.bc.pc # "idle") ~>
        /\ th.bc.pc = "done"
        /\ th.al.pc = "exit"
        /\ bnd.sockets = {}
        /\ stk["B"].stopped

\* C11: Close has closed the bind's stopChan and waits for the accept loop,
\* which waits in Stack.Accept for a connection or for the stack's stopChan.
C11_CloseWaitsForAccept ==
    /\ th.bc.pc = "b_wait"
    /\ bnd.stopChan
    /\ th.al.pc = "accept"
    /\ stk["B"].acceptQueue = <<>> /\ ~stk["B"].stopped
    /\ ~ENABLED AcceptLoop
    /\ ~ENABLED BindCloseStep

\* the payloads in the bind's receive queue, oldest first, by the sequence
\* numbers of their packets; the client's numbers do not wrap here
InArrivalOrder(q) == \A i, j \in 1..Len(q) : i < j => Greater32(q[j], q[i])

\* C20: the payloads of one connection appear in the bind's shared receive
\* queue in the order their packets arrived on the tunnel device, for any
\* number of TUN queue readers and any scheduling.
C20_ArrivalOrderKept == InArrivalOrder(bnd.recvQueue)

\* both payloads were delivered, the second one sent first in the queue
C20_LaterPayloadFirst ==
    /\ Len(bnd.recvQueue) = 2
    /\ bnd.recvQueue[1] = SeqPlus(rnd["c"], 2)
    /\ bnd.recvQueue[2] = SeqPlus(rnd["c"], 1)

(***************************************************************************)
(* Properties of the acknowledgement counters.                             *)
(***************************************************************************)
\* C21 as amended: in an Established socket, outside the two stores of a
\* Recv, ack is ahead of lastAck by at most MaxUnackedLen modulo 2^32.
C21_AckWithinWindow ==
    \A x \in {"c", "s"} :
        (sk[x].state = "Established" /\ th.rcv.pc # "r_ack" /\ th.hs.pc # "r_ack")
        => ~Greater32(SeqMinus(sk[x].ack, sk[x].lastAck), MaxUnackedLen)

\* a Recv moved lastAck up to the top of uint32 and a later packet took ack
\* past 2^32
C21_AckWrapped ==
    /\ sk["c"].state = "Established"
    /\ th.rcv.pc = "ret"
    /\ sk["c"].lastAck = U32(Half - 1, Half - 2)
    /\ sk["c"].ack = U32(0, 0)

\* C21: in every reachable state of an Established socket ack >= lastAck,
\* for every sequence of received packets.
C21_AckAtLeastLastAck ==
    \A x \in {"c", "s"} :
        sk[x].state = "Established" => ~Greater32(sk[x].lastAck, sk[x].ack)


(***************************************************************************)
(* Properties of the deadlock watchdog.                                    *)
(***************************************************************************)
\* C27: the monitor exits the process, with code 1 and one grace period
\* after the test, exactly when a tick (every deadlockTimeout / 2) found
\* more than deadlockTimeout since the last activity; so while the monitor
\* is not stopped the test succeeds no later than 1.5 * deadlockTimeout
\* after the last activity, and never while the last activity is no older
\* than deadlockTimeout.
C27_ExitIffOverdueAtTick ==
    LET T == cl.deadlockTimeout
    IN  /\ cl.pc \in {"sleep", "exited"} =>
              /\ cl.tripGap > T
              /\ cl.tripAt > 0
              /\ cl.tripAt % (T \div 2) = 0
        /\ cl.pc = "exited" => (cl.code = 1 /\ cl.now = cl.tripAt + Grace)
        /\ cl.pc # "exited" => cl.code = 0
        /\ (cl.pc = "select" /\ ~cl.done) => 2 * (cl.now - cl.lastActivity) <= 3 * T
        /\ (cl.pc = "select" /\ ~cl.done /\ ~cl.ticked /\ cl.now > 0
               /\ cl.now % (T \div 2) = 0) => cl.now - cl.lastActivity <= T

\* the process has exited on a check made exactly 1.5 * deadlockTimeout
\* after the last activity, the logger never stopped
C27_ExitedAtTheBound ==
    /\ cl.pc = "exited"
    /\ ~cl.stopped
    /\ cl.lastActivity > 0
    /\ 2 * cl.tripGap = 3 * cl.deadlockTimeout


(***************************************************************************)
(* Properties of the address validation.                                   *)
(***************************************************************************)
\* C28: IsPrivateIP is true of an IPv4 address exactly when it lies in a
\* listed IPv4 block, of an IPv6 address exactly when it lies in a listed
\* IPv6 block, of an IPv4-mapped address when its embedded IPv4 address
\* does, and of a nil IP; IsPublicIP is its negation on every non-nil
\* address; the results are those the tests expect.
C28_PrivateIffInListedBlock ==
    ipc.pc = "done" =>
        LET ip == ipc.ip
            embedded == <<ip[7] \div 256, ip[7] % 256, ip[8] \div 256, ip[8] % 256>>
            mapped == Len(ip) = 8 /\ SubSeq(ip, 1, 6) = <<0, 0, 0, 0, 0, 65535>>
        IN  /\ ip = NilIP => ipc.private
            /\ Len(ip) = 4 => (ipc.private <=> \E b \in Blocks4 : Contains4(b, ip))
            /\ mapped => (ipc.private <=> \E b \in Blocks4 : Contains4(b, embedded))
            /\ (Len(ip) = 8 /\ ~mapped) =>
                  (ipc.private <=> \E b \in Blocks6 : Contains6(b, ip))
            /\ ip # NilIP => (ipc.public <=> ~ipc.private)
            /\ \A t \in PrivateTests : t.ip = ip => ipc.private = t.expected
            /\ \A t \in PublicTests : t.ip = ip => ipc.public = t.expected

\* 172.32.0.1, as net.ParseIP returns it, was found public
C28_JustPastTheBlock ==
    /\ ipc.pc = "done"
    /\ ipc.ip = ParseIP4(<<172, 32, 0, 1>>)
    /\ ~ipc.private
    /\ ipc.public


(***************************************************************************)
(* Properties of roaming.                                                  *)
(***************************************************************************)
\* C29: SetEndpointFromPacket changes nothing of the peer (its endpoints,
\* the device's local addresses, the peer's entry of the configuration,
\* the saves started) when roaming is disabled, and when AllowPrivateIP is
\* false and IsPrivateIP holds of the packet's source, a nil source
\* included.
C29_PrivateSourceNeverAdopted ==
    [][(/\ rm' # rm
        /\ \/ cfg.disableRoaming
           \/ ~cfg.allowPrivate /\ IsPrivateIP(rm'.e.ip)) =>
          /\ ep' = ep
          /\ localIP' = localIP
          /\ cfgPeer' = cfgPeer
          /\ saves' = saves
          /\ rm'.res # "adopted"]_vars

\* with AllowPrivateIP=false a packet whose source IP is nil has become the
\* peer's endpoint
C29_NilSourceAdopted ==
    /\ ~cfg.allowPrivate
    /\ ~cfg.disableRoaming
    /\ rm.pc = "ret" /\ rm.res = "adopted"
    /\ rm.e.ip = NilIP
    /\ IsPrivateIP(rm.e.ip)
    /\ ep.endpoint = rm.e


\* C30 (amended): whenever one of the endpoints SetEndpointFromConnURL
\* installs (endpointIPv4, endpointIPv6, the pseudo-TCP endpoints) is
\* non-nil and no SetEndpointFromConnURL call is in progress, activeAF is
\* 4 or 6; in every state activeAF is unset, 4 or 6.
C30_ActiveAFOnceInstalled ==
    /\ activeAF \in {0, 4, 6}
    /\ (cu.pc = "idle" /\ \E f \in EpSlots \ {"endpoint"} : ep[f] # NilEp) =>
           activeAF \in {4, 6}

\* roaming has replaced the endpoint of a peer whose active family
\* SetEndpointFromConnURL had set to 4
C30_RoamedAfterInstall ==
    /\ cu.pc = "idle"
    /\ rm.pc = "ret" /\ rm.res = "adopted"
    /\ ep.endpointIPv4 # NilEp
    /\ ep.endpoint = rm.e
    /\ ep.endpoint # ep.endpointIPv4
    /\ activeAF = 4

\* C30 as stated: whenever one of the six endpoints of the peer is
\* non-nil, activeAF is 4 or 6.
C30_AsStated ==
    (\E f \in EpSlots : ep[f] # NilEp) => activeAF \in {4, 6}

(***************************************************************************)
(* Properties of the socket's state machine, of Send and Recv, and of the  *)
(* stack's socket table.                                                   *)
(***************************************************************************)
\* the arrows of the state diagram
StateDiagram ==
    {<<"Idle", "SynSent">>, <<"SynSent", "Established">>,
     <<"Idle", "SynReceived">>, <<"SynReceived", "Established">>}
    \cup {<<st, "Closed">> : st \in {"Idle", "SynSent", "SynReceived", "Established"}}

\* C31: the state of a socket changes only along Idle -> SynSent ->
\* Established, Idle -> SynReceived -> Established and any -> Closed; a
\* socket whose state is Closed keeps it, whatever Connect or Accept call
\* runs beside the Close.
C31_OnlyDiagramSteps ==
    [][\A x \in {"c", "s"} :
         (sk[x].exists /\ sk'[x].state # sk[x].state) =>
             <<sk[x].state, sk'[x].state>> \in StateDiagram]_vars

\* C31: the Connect that ran beside a Close() has returned success after
\* the Close() set the state to Closed.
C31_EstablishedOverClosed ==
    /\ sk["c"].closes = 1
    /\ sk["c"].state = "Established"
    /\ th.conn.pc = "ret" /\ th.conn.res = "ok"

\* the payload bytes of the segments before the i-th in the order written
RECURSIVE WrittenBefore(_, _)
WrittenBefore(sent, i) ==
    IF i <= 1 THEN 0 ELSE sent[i - 1].len + WrittenBefore(sent, i - 1)

\* C32: for any interleaving of Send calls on a socket, the segment of
\* every Send that wrote carries the initial sequence number plus 1 plus
\* the payload bytes written before it, modulo 2^32, and no two non-empty
\* segments carry the same sequence number.
C32_SegmentSeqs ==
    LET sent == sk["c"].sent
    IN  /\ \A i \in 1..Len(sent) :
              sent[i].seq = SeqPlus(sk["c"].isn, 1 + WrittenBefore(sent, i))
        /\ \A i, j \in 1..Len(sent) :
              (i < j /\ sent[i].len > 0 /\ sent[j].len > 0) => sent[i].seq # sent[j].seq

\* C32: two Send calls have written non-empty segments with the same
\* sequence number and both have returned success.
C32_SameSeqTwice ==
    /\ \E i, j \in 1..Len(sk["c"].sent) :
          /\ i < j
          /\ sk["c"].sent[i].len > 0 /\ sk["c"].sent[j].len > 0
          /\ sk["c"].sent[i].seq = sk["c"].sent[j].seq
    /\ \A t \in SendCallers : th[t].pc = "ret" /\ th[t].res = "ok"

\* (a - b) mod 2^32 > MaxUnackedLen, half by half
AheadOfWindow(a, b) ==
    LET d == SeqMinus(a, b)
    IN  d[1] > MaxUnackedLen[1] \/ (d[1] = MaxUnackedLen[1] /\ d[2] > MaxUnackedLen[2])

\* C33: a Recv that takes a packet without payload takes the next one and
\* changes neither ack nor lastAck; one that takes a payload takes the
\* oldest queued packet and sets ack to its sequence number plus its
\* length modulo 2^32; it sets lastAck to ack and writes a bare ACK exactly
\* when ack is then more than MaxUnackedLen ahead of lastAck modulo 2^32,
\* and when it returns a payload ack is at most MaxUnackedLen ahead.
C33_RecvAcks ==
    [][LET s == sk["c"]
           pkt == Head(s.incoming)
           took == /\ th.rcv.pc = "r_select" /\ th'.rcv # th.rcv
                   /\ sk'["c"].incoming # s.incoming
       IN  /\ (took /\ pkt.len = 0) =>
                 /\ th'.rcv.pc = "r_state"
                 /\ sk'["c"] = [s EXCEPT !.incoming = Tail(@)]
                 /\ tun' = tun
           /\ (took /\ pkt.len > 0) =>
                 /\ sk'["c"] = [s EXCEPT !.incoming = Tail(@),
                                         !.ack = SeqPlus(pkt.seq, pkt.len)]
                 /\ th'.rcv.got = pkt.seq
                 /\ tun' = tun
                 /\ th'.rcv.pc = IF AheadOfWindow(sk'["c"].ack, s.lastAck)
                                 THEN "r_ack" ELSE "ret"
           /\ (th.rcv.pc = "r_ack" /\ th'.rcv # th.rcv) =>
                 /\ AheadOfWindow(s.ack, s.lastAck)
                 /\ sk'["c"] = [s EXCEPT !.lastAck = s.ack]
                 /\ tun'["B"].rq = Append(tun["B"].rq,
                                          [flags |-> ACK, seq |-> s.seq,
                                           ack |-> s.ack, len |-> 0])
                 /\ th'.rcv.pc = "ret" /\ th'.rcv.res = "ok"
           /\ (th'.rcv.pc = "ret" /\ th'.rcv.res = "ok") =>
                 ~AheadOfWindow(sk'["c"].ack, sk'["c"].lastAck)]_vars

\* a Recv took a payload whose sequence number put ack more than
\* MaxUnackedLen ahead of lastAck, moved lastAck up, wrote the ACK and
\* returned
C33_AckedAfterJump ==
    /\ th.rcv.pc = "ret" /\ th.rcv.res = "ok"
    /\ th.rcv.got = U32(Half \div 2, 0)
    /\ tun["A"].injected = 2
    /\ sk["c"].ack = U32(Half \div 2, 1)
    /\ sk["c"].lastAck = U32(Half \div 2, 1)
    /\ \E i \in 1..Len(tun["B"].rq) :
          tun["B"].rq[i] = [flags |-> ACK, seq |-> sk["c"].seq,
                           ack |-> U32(Half \div 2, 1), len |-> 0]

\* the parts of C34 that do not depend on the closed flag: the reader is
\* never made to wait by a socket, the queue never holds more than
\* IncomingQueueSize packets, a packet that finds it full is discarded and
\* the queue is as before, and a step of the reader leaves the packets
\* already queued as they were
QueueKept ==
    LET q == sk["c"].incoming
        after == sk'["c"].incoming
        reads == th'.rdQ # th.rdQ
    IN  /\ th.rdQ.pc \in {"h_closed", "h_put"} => ENABLED PacketReader
        /\ Len(after) <= IncomingQueueSize
        /\ (reads /\ th.rdQ.pc = "h_put" /\ Len(q) = IncomingQueueSize) => after = q
        /\ reads => (after = q \/ (th.rdQ.pc = "h_put" /\ after = Append(q, th.rdQ.pkt)))
        /\ Len(after) > Len(q) => reads

\* C34 (amended): the packet reader never waits on a socket; a packet for
\* a socket whose queue holds IncomingQueueSize packets is discarded and
\* the queue is unchanged; the queue never holds more; queued packets are
\* not altered by later reads; and a handleIncoming call that tests the
\* closed flag after it was set enqueues nothing.
C34_QueueBounded ==
    [][/\ QueueKept
       /\ (th.rdQ.pc = "h_closed" /\ sk["c"].closed /\ th'.rdQ # th.rdQ) =>
              (th'.rdQ.pc = "top" /\ sk'["c"].incoming = sk["c"].incoming)]_vars

\* the queue holds IncomingQueueSize packets and the reader has discarded
\* the next one
C34_DroppedWhenFull ==
    /\ Len(sk["c"].incoming) = IncomingQueueSize
    /\ tun["A"].injected = IncomingQueueSize + 1
    /\ tun["A"].rq = <<>>
    /\ th.rdQ.pc = "top"
    /\ sk["c"].incoming[IncomingQueueSize].seq = U32(0, IncomingQueueSize)

\* C34 as stated: the same, with no packet enqueued on a socket whose
\* closed flag is set.
C34_NoEnqueueOnceClosed ==
    [][/\ QueueKept
       /\ sk["c"].closed => Len(sk'["c"].incoming) <= Len(sk["c"].incoming)]_vars

(***************************************************************************)
(* Properties of the stack's socket table.                                 *)
(***************************************************************************)
\* the step is one turn of the packet reader on a packet whose tuple has
\* no socket
ReadsUnregistered ==
    /\ mx'.reads = mx.reads + 1
    /\ mx.sockets[<<mx'.buf.port, mx'.buf.remote>>] = 0

\* the packet read by the step asks for a connection the stack listens for
ListenedSyn == mx'.buf.flags = SYN /\ mx'.buf.port = "bound" /\ mx.listening

\* C35: the stack makes and registers a socket for an inbound connection
\* only when it reads a packet with exactly SYN to a listening port whose
\* tuple has no socket; any other packet whose tuple has no socket changes
\* no socket, no registration and no queue; a socket enters the accept
\* queue only from its Accept that succeeded, in state Established; and a
\* socket whose Accept failed is closed, is registered nowhere and is in
\* no queue.
C35_Demultiplexing ==
    [][/\ \A i \in SockIds :
            (~mx.socks[i].made /\ mx'.socks[i].made /\ mx'.socks[i].alias) =>
                /\ ReadsUnregistered /\ ListenedSyn
                /\ mx'.sockets[<<mx'.buf.port, mx'.buf.remote>>] = i
                /\ mx'.socks[i].state = "Idle"
       /\ (ReadsUnregistered /\ ~ListenedSyn) =>
              /\ mx'.socks = mx.socks
              /\ mx'.sockets = mx.sockets
              /\ mx'.acceptQueue = mx.acceptQueue
              /\ mx'.bsockets = mx.bsockets
       /\ \A i \in SockIds :
            (Len(mx'.acceptQueue) > Len(mx.acceptQueue)) =>
                (mx'.acceptQueue = Append(mx.acceptQueue, i) =>
                    /\ mx.socks[i].pc = "a_queue"
                    /\ mx'.socks[i].state = "Established")
       /\ \A i \in SockIds :
            mx'.socks[i].pc = "failed" =>
                /\ mx'.socks[i].closed
                /\ mx'.socks[i].state = "Closed"
                /\ \A t \in MuxPorts \X Remotes : mx'.sockets[t] # i
                /\ \A r \in Remotes : mx'.bsockets[r] # i
                /\ \A k \in 1..Len(mx'.acceptQueue) : mx'.acceptQueue[k] # i]_vars

\* C35: the Accept of the socket made for R1's SYN has failed and the
\* socket is closed, and the stack still has it registered under R1's
\* tuple: the reader had read a packet of R2 before the socket was closed.
C35_FailedStillRegistered ==
    \E i \in SockIds :
        /\ mx.socks[i].pc = "failed"
        /\ mx.socks[i].closed
        /\ mx.socks[i].remote = "R1"
        /\ mx.buf.remote = "R2"
        /\ mx.sockets[<<"bound", "R1">>] = i

\* the socket exists and neither Close nor a failed handshake has closed it
OpenSock(i) ==
    mx.socks[i].made /\ ~mx.socks[i].closed /\ mx.socks[i].state # "Closed"

\* C36: under every interleaving of Send calls of the bind, reads of
\* inbound packets, handshake timeouts and Close calls, no two sockets
\* that are not closed have the same (localAddr, remoteAddr) tuple, every
\* socket that is not closed is the one the stack has registered under its
\* tuple, and a registration is removed only when its own socket is
\* closed.
C36_TupleIdentifiesSocket ==
    [][/\ \A i, j \in SockIds :
            (i # j /\ OpenSock(i)' /\ OpenSock(j)') => Tuple(i)' # Tuple(j)'
       /\ \A i \in SockIds : OpenSock(i)' => mx'.sockets[Tuple(i)'] = i
       /\ \A t \in MuxPorts \X Remotes :
            (mx.sockets[t] # 0 /\ mx'.sockets[t] = 0) =>
                mx'.socks[mx.sockets[t]].state = "Closed"]_vars

\* C36: two Send calls of the bind to the same remote have each made a
\* socket with Stack.Connect; both sockets are open on the same tuple and
\* the stack has the second one registered.
C36_TwoSocketsOneTuple ==
    \E i, j \in SockIds :
        /\ i < j
        /\ OpenSock(i) /\ OpenSock(j)
        /\ ~mx.socks[i].alias /\ ~mx.socks[j].alias
        /\ Tuple(i) = Tuple(j)
        /\ mx.sockets[Tuple(i)] = j
        /\ mx.snd["g1"].sock # mx.snd["g2"].sock
        /\ \A g \in BindCallers : mx.snd[g].pc = "wait"

(***************************************************************************)
(* Properties of the delivery of received payloads.                        *)
(***************************************************************************)
\* the bind of the socket's node holds the socket in its map
HeldByBind(x) == IF x = "c" THEN "c" \in bnd.csockets ELSE "s" \in bnd.sockets

\* a packet with payload waits on the socket
PayloadQueued(x) ==
    \E k \in 1..Len(sk[x].incoming) : sk[x].incoming[k].len > 0

\* a receive function of the socket's bind has returned a payload
Yielded(x) == IF x = "c" THEN bnd.cyielded # <<>> ELSE bnd.yielded # <<>>

\* C37: a payload queued on an Established socket that the bind holds, be
\* it a socket of the accept loop or one made by Send's Connect, is
\* eventually returned by a receive function of the bind, while the bind
\* is open and its receive functions keep being called.
C37_PayloadYielded ==
    \A x \in {"c", "s"} :
        (sk[x].state = "Established" /\ HeldByBind(x) /\ PayloadQueued(x))
            ~> Yielded(x)

\* C37: the payload the server sent waits on the socket the client's Send
\* made and stored; no goroutine of the client's bind calls Recv on it, and
\* nothing of the client's bind can take a step.
C37_NobodyReceives ==
    /\ sk["c"].state = "Established"
    /\ HeldByBind("c")
    /\ PayloadQueued("c")
    /\ th.cs.pc = "ret" /\ th.cs.res = "ok"
    /\ bnd.crecvQueue = <<>>
    /\ ~ENABLED ClientSend
    /\ ~ENABLED ReceiveFunc("A")

(***************************************************************************)
(* Properties of GetNextTry.                                               *)
(***************************************************************************)
\* the maps GetNextTry ranges over
TryMaps == {"trymap_super", "trymap_p2p"}

\* C38: a GetNextTry on a trylist with items returns the URL of an item
\* whose lastTry is the smallest of all, and changes that item alone: its
\* lastTry becomes now, not earlier than before, its firstTry becomes now
\* only if it was the zero time, and fastRetry is false exactly when
\* firstTry + peerTimeout < now; on a trylist without items it returns
\* (false, "") and changes nothing.  (The instants of one second of the
\* clock are taken in the order of the calls.)
C38_RefreshesTheSmallest ==
    [][(et'.calls = et.calls + 1 /\ et'.last.op = "GetNextTry") =>
         LET have == {<<m, k>> \in TryMaps \X Urls : k \in DOMAIN et[m]}
             url == et'.last.url
         IN  IF have = {}
             THEN /\ url = "" /\ ~et'.last.fast
                  /\ \A m \in TryMaps : et'[m] = et[m]
             ELSE /\ \E c \in have :
                       /\ c[2] = url
                       /\ \A d \in have : et[c[1]][c[2]].lastTry <= et[d[1]][d[2]].lastTry
                       /\ url \in DOMAIN et'[c[1]]
                       /\ LET old == et[c[1]][url]
                              new == et'[c[1]][url]
                          IN  /\ new.lastTry = et.now
                              /\ old.lastTry <= new.lastTry
                              /\ new.firstTry = IF old.firstTry = ZeroTime
                                                THEN et.now ELSE old.firstTry
                              /\ et'.last.fast = ~(new.firstTry + PeerAliveTimeout < et.now)
                       /\ \A d \in have \ {c} :
                              /\ d[2] \in DOMAIN et'[d[1]]
                              /\ et'[d[1]][d[2]] = et[d[1]][d[2]]
                       /\ \A m \in TryMaps : DOMAIN et'[m] \subseteq DOMAIN et[m]]_vars

\* C38: the third call, a GetNextTry, has returned h2 with fastRetry false
\* and left both maps without items: the item it refreshed is in no map.
C38_RefreshedItemGone ==
    /\ et.last.op = "GetNextTry"
    /\ et.calls = 3
    /\ et.last.url = "h2"
    /\ ~et.last.fast
    /\ \A m \in TryMaps : DOMAIN et[m] = {}

(***************************************************************************)
(* Properties of the lock discipline.                                      *)
(***************************************************************************)
\* g is at an access of kind k to the state of lock o
Accessing(g, k, o) == Running(g) /\ Cur(g) = Op(k, o)

\* C39: a goroutine mutates the trylist or the peer's endpoint pointers only
\* while it holds the write lock, reads them only while it holds the read or
\* the write lock, and never asks for the write lock while it holds the read
\* lock; so no mutation is at the same time as another mutation or a read.
C39_LockDiscipline ==
    /\ \A g \in Goroutines, o \in Locks :
          /\ Accessing(g, "write", o) => lk.writer[o] = g
          /\ Accessing(g, "read", o) => (g \in lk.readers[o] \/ lk.writer[o] = g)
          /\ Accessing(g, "Lock", o) => g \notin lk.readers[o]
    /\ \A g, h \in Goroutines, o \in Locks :
          (g # h /\ Accessing(g, "write", o))
             => ~(Accessing(h, "write", o) \/ Accessing(h, "read", o))

\* C39: two GetNextTry calls, each holding the read lock of the trylist, are
\* both at a write to it.
C39_TwoWritersUnderRLock ==
    /\ lk.g["g1"].call = "GetNextTry" /\ lk.g["g2"].call = "GetNextTry"
    /\ Accessing("g1", "write", "et") /\ Accessing("g2", "write", "et")
    /\ lk.readers["et"] = Goroutines
    /\ lk.writer["et"] = "none"

(***************************************************************************)
(* Properties of the one-endpoint view.                                    *)
(***************************************************************************)
\* the aliases point to the UDP and pseudo-TCP endpoints of family af
AliasesOf(e, af) ==
    /\ af \in {4, 6}
    /\ e.endpoint = (IF af = 6 THEN e.endpointIPv6 ELSE e.endpointIPv4)
    /\ e.faketcpEndpoint = (IF af = 6 THEN e.faketcpEndpointIPv6 ELSE e.faketcpEndpointIPv4)

\* C40: when SetEndpointFromConnURL leaves its alias section with success,
\* and when a SendBuffer call leaves the failover section of tryIPv6Send,
\* endpoint and faketcpEndpoint are the UDP and pseudo-TCP endpoints of the
\* family activeAF names.
C40_AliasesFollowActiveAF ==
    [][(\/ cu.pc = "alias" /\ cu'.pc = "ret" /\ cu'.res = "ok"
        \/ \E t \in Callers : sb[t].pc = "v6lock" /\ sb'[t].pc # "v6lock")
          => AliasesOf(ep', activeAF')]_vars

\* C40: a call whose preferred family is IPv6 has returned success with its
\* private IPv6 address refused and its IPv4 address installed: the aliases
\* are the IPv4 endpoints and activeAF is 6.
C40_ActiveAFNamesRefusedFamily ==
    /\ cu.pc = "ret" /\ cu.res = "ok"
    /\ cu.primary = 6 /\ cu.v6 = Priv6 /\ cu.v4 = Pub4
    /\ ~cfg.allowPrivate
    /\ ep.endpointIPv6 = NilEp
    /\ ep.endpoint = UdpEp(Pub4) /\ ep.endpoint = ep.endpointIPv4
    /\ activeAF = 6

====
